---- MODULE Spec2Model ----
(***************************************************************************)
(* A model of the Blueprint LLM orchestration core:                        *)
(*   - ContextManager session history (orchestrator/context.py)            *)
(*   - StreamHandler.handle_stream     (models/streaming.py)               *)
(*   - UsageTracker                    (utils/usage_tracker.py)            *)
(*   - LLMClient chat / tools          (models/client.py)                  *)
(*   - ModelRouter                     (models/router.py)                  *)
(*   - LLMOrchestrator request entry   (orchestrator/orchestrator.py)      *)
(* Each component has its own specification (SpecCtx, SpecStream, ...);    *)
(* the variables of the other components are held at their initial value.  *)
(***************************************************************************)
EXTENDS Integers, Sequences, FiniteSets, TLC

\* ------------------------------------------------------------------------
\* State
\* ------------------------------------------------------------------------

\* Python's None
None == "None"

\* ContextManager
VARIABLES
    max_session_messages,   \* ContextManager.max_session_messages
    summarize_threshold,    \* ContextManager.summarize_threshold
    session,                \* ContextManager._session: key -> deque of messages
    ctx_log                 \* history: every message handed to add_message, per key

ctxVars == <<max_session_messages, summarize_threshold, session, ctx_log>>

\* StreamHandler.handle_stream
VARIABLES
    st_max_retries,   \* StreamHandler.max_retries
    st_expect_json,   \* handle_stream(expect_json=...)
    st_adapters,      \* adapters = [adapter] + fallback_adapters (their providers)
    st_pc,            \* position of the generator in handle_stream
    st_idx,           \* index of current_adapter in adapters (0 before the loop)
    st_attempts,      \* the local `attempts`
    st_collected,     \* the local `collected`
    st_stream,        \* what current_adapter.stream_chat(request) has still to emit
    st_exc,           \* the exception being handled (None outside the handler)
    st_out,           \* history: the chunks yielded to the caller so far
    st_log            \* history: one entry per stream_chat invocation

stVars == <<st_max_retries, st_expect_json, st_adapters, st_pc, st_idx, st_attempts,
            st_collected, st_stream, st_exc, st_out, st_log>>

\* UsageTracker
VARIABLES
    records,                  \* UsageTracker.records
    stats,                    \* UsageTracker.stats (UsageStats aggregate)
    hourly_stats,             \* UsageTracker.hourly_stats: deque of <<time, record>>
    daily_stats,              \* UsageTracker.daily_stats: deque of <<time, record>>
    max_cost,                 \* UsageTracker.max_cost (NoLimit for None), in thousandths
    max_tokens_per_request,   \* UsageTracker.max_tokens_per_request (NoLimit for None)
    max_cost_hourly,          \* UsageTracker.max_cost_hourly (NoLimit for None)
    max_cost_daily,           \* UsageTracker.max_cost_daily (NoLimit for None)
    now,                      \* the wall clock, in hours
    ut_last,                  \* history: the last tracker call and how it ended
    ut_events                 \* history: the arguments of every record_usage call

utVars == <<records, stats, hourly_stats, daily_stats, max_cost, max_tokens_per_request,
            max_cost_hourly, max_cost_daily, now, ut_last, ut_events>>

\* CacheManager and ToolEngine, owned by LLMClient
VARIABLES
    cache_store,       \* CacheManager._store: insertion-ordered <<key, time, value>>
    permission_mode,   \* ToolEngine.permission_mode
    tool_whitelist,    \* ToolEngine._whitelist
    audit_enabled,     \* ToolEngine._audit_log is set (enable_audit was called)
    audit_log          \* the lines appended to the audit log file

\* one chat turn of the orchestrator: _chat_with_fallback, then _handle_tool_calls
VARIABLES
    cl_pc,             \* position in the turn
    cl_providers,      \* the local `providers` of _chat_with_fallback
    cl_i,              \* index of the provider being tried
    cl_response,       \* the response of _chat_with_fallback (a sequence of 0 or 1)
    cl_pending,        \* tool calls of that response still to execute
    cl_tool_results,   \* what client.execute_tool returned, in order
    cl_result,         \* how the turn ended for its caller
    cl_tried,          \* history: providers whose adapter.chat was invoked
    cl_quota_at,       \* history: Len(cl_tried) when record_usage first raised (0: never)
    cl_denied          \* history: a tool execution was rejected with PermissionError

clVars == <<cache_store, permission_mode, tool_whitelist, audit_enabled, audit_log,
            cl_pc, cl_providers, cl_i, cl_response, cl_pending, cl_tool_results,
            cl_result, cl_tried, cl_quota_at, cl_denied>>

\* ModelRouter
VARIABLES
    health_cache,   \* ModelRouter._health_cache: provider -> status ("absent": no entry)
    rt_ops,         \* history: number of router calls made
    rt_last         \* history: the last router call, its inputs and what it did

rtVars == <<health_cache, rt_ops, rt_last>>

\* the entry of LLMOrchestrator.chat / LLMOrchestrator.stream
VARIABLES
    or_pc,        \* position in the call: "idle", "request" (budget passed), "done"
    or_call,      \* the call being served: its arguments, provider, prepared messages
    or_result,    \* how the call ended for its caller
    or_invoked,   \* history: providers whose adapter was sent a chat/stream request
    or_before     \* history: <<session, records>> when the call was made

orVars == <<or_pc, or_call, or_result, or_invoked, or_before>>

\* calls made on the cache, directly or through LLMClient.chat(request)
VARIABLES
    ca_ops,    \* history: number of such calls made
    ca_last    \* history: the last such call, its arguments and what it returned

caVars == <<ca_ops, ca_last>>

\* one ToolEngine.execute_tool call, step by step
VARIABLES
    auto_approve_patterns,   \* PermissionManager.auto_approve_patterns
    te_pc,         \* position in execute_tool
    te_call,       \* the call being served: name and args
    te_exc,        \* the exception in flight (None: none)
    te_worker,     \* the executor's worker thread: "none", "running", "finished"
    te_trace,      \* history: what the call has done so far, in order
    te_attempts    \* history: the finished calls and how each ended

teVars == <<auto_approve_patterns, te_pc, te_call, te_exc, te_worker, te_trace,
            te_attempts>>

\* PersonaManager
VARIABLES
    pm_active,   \* PersonaManager._active
    pm_ops,      \* history: number of PersonaManager calls made
    pm_last      \* history: the last PersonaManager call and how it ended

pmVars == <<pm_active, pm_ops, pm_last>>

\* calls that read or rewrite the session context: get_context, distill_async
VARIABLES
    distillation_trigger_tokens,   \* ContextManager.distillation_trigger_tokens
    cx_orchestrator,   \* what was passed as `orchestrator` to ContextManager()
    cx_ops,    \* history: number of distill_async calls made
    cx_last    \* history: the last such call, its arguments and what it did

cxVars == <<distillation_trigger_tokens, cx_orchestrator, cx_ops, cx_last>>

\* Feature: the per-task conversation files
VARIABLES
    ft_files,      \* task id -> tasks/<id>/session-context.json: whether it exists, its JSON
    ft_appended,   \* history: task id -> the (role, content) pairs appended since the last clear
    ft_ops,        \* history: number of Feature calls made
    ft_last        \* history: the last Feature call and what it returned

ftVars == <<ft_files, ft_appended, ft_ops, ft_last>>

\* one TaskCoordinator.execute call
VARIABLES
    tk_task,        \* task.steps: a sequence of [id, dependencies]
    tk_pc,          \* position in execute
    tk_completed,   \* the local `completed_steps`
    tk_status,      \* TaskStep.status, per position in task.steps
    tk_next,        \* position of `next_step` in task.steps (0: none)
    tk_calls,       \* history: positions of the steps orchestrator.chat was called for
    tk_result       \* the TaskResult returned: success and errors

tkVars == <<tk_task, tk_pc, tk_completed, tk_status, tk_next, tk_calls, tk_result>>

vars == <<ctxVars, stVars, utVars, clVars, rtVars, orVars, caVars, teVars, pmVars, cxVars, ftVars, tkVars>>

\* what the operations of one component leave alone
notCtx == <<stVars, utVars, clVars, rtVars, orVars, caVars, teVars, pmVars, cxVars, ftVars, tkVars>>
notStream == <<ctxVars, utVars, clVars, rtVars, orVars, caVars, teVars, pmVars, cxVars, ftVars, tkVars>>
notUsage == <<ctxVars, stVars, clVars, rtVars, orVars, caVars, teVars, pmVars, cxVars, ftVars, tkVars>>
notChat == <<ctxVars, stVars, rtVars, orVars, caVars, teVars, pmVars, cxVars, ftVars, tkVars>>
notRouter == <<ctxVars, stVars, utVars, clVars, orVars, caVars, teVars, pmVars, cxVars, ftVars, tkVars>>
notEntry == <<stVars, clVars, caVars, teVars, pmVars, cxVars, ftVars, tkVars>>
notCache == <<ctxVars, stVars, rtVars, orVars, permission_mode, tool_whitelist,
              audit_enabled, audit_log, cl_pc, cl_providers, cl_i, cl_response,
              cl_pending, cl_tool_results, cl_result, cl_tried, cl_quota_at, cl_denied,
              teVars, pmVars, cxVars, ftVars, tkVars>>
notTool == <<ctxVars, stVars, rtVars, orVars, caVars, pmVars, cache_store, cl_pc,
             cl_providers, cl_i, cl_response, cl_pending, cl_tool_results, cl_result,
             cl_tried, cl_quota_at, cl_denied, records, stats, hourly_stats,
             daily_stats, max_cost, max_tokens_per_request, max_cost_hourly,
             max_cost_daily, ut_last, ut_events, cxVars, ftVars, tkVars>>
notPersona == <<ctxVars, stVars, utVars, clVars, rtVars, orVars, caVars, teVars, cxVars, ftVars, tkVars>>

notCtxRead == <<stVars, utVars, clVars, rtVars, orVars, caVars, teVars, pmVars, ftVars,
               tkVars>>
notFeature == <<ctxVars, stVars, utVars, clVars, rtVars, orVars, caVars, teVars, pmVars,
               cxVars, tkVars>>
notTask == <<ctxVars, stVars, utVars, clVars, rtVars, orVars, caVars, teVars, pmVars,
            cxVars, ftVars>>

\* an Optional[...] limit that is None
NoLimit == -1

\* UsageStats()
EmptyStats ==
    [total_requests |-> 0, total_tokens |-> 0, total_cost |-> 0, by_backend |-> <<>>]

\* a tracker without limits that has recorded nothing
UsageIdle ==
    /\ records = <<>>
    /\ stats = EmptyStats
    /\ hourly_stats = <<>>
    /\ daily_stats = <<>>
    /\ max_cost = NoLimit
    /\ max_tokens_per_request = NoLimit
    /\ max_cost_hourly = NoLimit
    /\ max_cost_daily = NoLimit
    /\ now = 0
    /\ ut_last = [op |-> "none", raised |-> None, had_records |-> 0, at |-> 0]
    /\ ut_events = <<>>

\* the providers, in the order check_availability visits their adapters
RouterAdapters == <<"ollama", "claude", "gemini", "openai">>

AllProviders == {RouterAdapters[i] : i \in 1..Len(RouterAdapters)}

\* a router call record for "no call yet"
NoRouterCall ==
    [op |-> "none", role |-> None, size |-> 0, health |-> None, returned |-> None,
     available |-> FALSE, checks |-> <<>>, raised |-> None,
     cache_before |-> [p \in AllProviders |-> "absent"]]

\* a router right after construction
RouterIdle ==
    /\ health_cache = [p \in AllProviders |-> "absent"]
    /\ rt_ops = 0
    /\ rt_last = NoRouterCall

\* an orchestrator that has served no request
EntryIdle ==
    /\ or_pc = "idle"
    /\ or_call = [entry |-> None, provider |-> None, estimated_tokens |-> 0,
                  persona |-> None, include_context |-> FALSE, message |-> <<>>,
                  messages |-> <<>>]
    /\ or_result = [kind |-> "none", error |-> None]
    /\ or_invoked = <<>>
    /\ or_before = <<>>

\* a cache nothing was asked of
CacheIdle ==
    /\ ca_ops = 0
    /\ ca_last = [op |-> "none", key |-> None, value |-> None, returned |-> <<>>,
                  store_before |-> <<>>, at |-> 0]

\* a client that has served nothing
ClientIdle ==
    /\ cache_store = <<>>
    /\ permission_mode = "manual"
    /\ tool_whitelist = {}
    /\ audit_enabled = FALSE
    /\ audit_log = <<>>
    /\ cl_pc = "idle"
    /\ cl_providers = <<>>
    /\ cl_i = 0
    /\ cl_response = <<>>
    /\ cl_pending = <<>>
    /\ cl_tool_results = <<>>
    /\ cl_result = [kind |-> "none", error |-> None]
    /\ cl_tried = <<>>
    /\ cl_quota_at = 0
    /\ cl_denied = FALSE

\* PermissionManager.auto_approve_patterns (config tools.auto_approve), each
\* "tool" or "tool:path_glob"
AutoApprovePatterns == <<[tool_pattern |-> "write_file", arg_pattern |-> "/tmp/*"]>>

\* a tool engine with the patterns of the configuration, serving no call
ToolIdle ==
    /\ auto_approve_patterns = AutoApprovePatterns
    /\ te_pc = "idle"
    /\ te_call = [name |-> None, arg_keys |-> <<>>, path |-> None]
    /\ te_exc = None
    /\ te_worker = "none"
    /\ te_trace = <<>>
    /\ te_attempts = <<>>

\* PersonaManager()
PersonaIdle ==
    /\ pm_active = "general-assistant"
    /\ pm_ops = 0
    /\ pm_last = [op |-> "none", name |-> None, raised |-> None, returned |-> None,
                  active_before |-> "general-assistant"]

\* the conversation tasks of the Feature specification
FeatureTasks == {"task-1", "task-2"}

\* a path at which no file exists
NoFile == [exists |-> FALSE, entries |-> <<>>]

\* no context read was made
CtxReadIdle ==
    /\ distillation_trigger_tokens = 1
    /\ cx_orchestrator = "none"
    /\ cx_ops = 0
    /\ cx_last = [op |-> "none", backend |-> None, max_tokens |-> NoLimit, hint |-> <<>>,
                  returned |-> <<>>, llm_called |-> FALSE, secondary |-> "not_attempted",
                  raised |-> None, session_before |-> <<>>]

\* a feature directory without conversation files
FeatureIdle ==
    /\ ft_files = [t \in FeatureTasks |-> NoFile]
    /\ ft_appended = [t \in FeatureTasks |-> <<>>]
    /\ ft_ops = 0
    /\ ft_last = [op |-> "none", task |-> None, returned |-> <<>>]

\* no TaskCoordinator.execute call
TaskIdle ==
    /\ tk_task = <<>>
    /\ tk_pc = "idle"
    /\ tk_completed = {}
    /\ tk_status = <<>>
    /\ tk_next = 0
    /\ tk_calls = <<>>
    /\ tk_result = [success |-> FALSE, errors |-> <<>>]

\* the context manager before any message was added
CtxIdle ==
    /\ max_session_messages = 1
    /\ summarize_threshold = 1
    /\ session = [k \in {"openai"} |-> <<>>]
    /\ ctx_log = [k \in {"openai"} |-> <<>>]

\* no handle_stream call in progress
StreamIdle ==
    /\ st_max_retries = 0
    /\ st_expect_json = FALSE
    /\ st_adapters = <<>>
    /\ st_pc = "idle"
    /\ st_idx = 0
    /\ st_attempts = 0
    /\ st_collected = <<>>
    /\ st_stream = <<>>
    /\ st_exc = None
    /\ st_out = <<>>
    /\ st_log = <<>>

\* ------------------------------------------------------------------------
\* Shared helpers
\* ------------------------------------------------------------------------

\* the last element of a non-empty sequence
Last(s) == s[Len(s)]

\* s is a prefix of t
IsPrefix(s, t) == Len(s) <= Len(t) /\ SubSeq(t, 1, Len(s)) = s

\* needle occurs as a contiguous run inside hay (Python's `needle in hay`)
Contains(hay, needle) ==
    \E i \in 0..(Len(hay) - Len(needle)) : SubSeq(hay, i + 1, i + Len(needle)) = needle

\* ------------------------------------------------------------------------
\* ContextManager: session context
\* ------------------------------------------------------------------------
\* largest configured value of session_max_messages / auto_summarize_threshold
MaxCfgMessages == 13
\* number of add_message calls per behaviour
MaxAdds == 14

\* the tail _summarize_context keeps verbatim
keep_recent == 10

\* session keys used by the context specification
CtxKeys == {"openai"}

\* Text is modelled as a sequence of tokens; string concatenation is \o.
SummaryPrefix == "[Previous conversation summary]: "

\* the n-th message handed to add_message: turns alternate user / assistant
\* as _record_context writes them; the content is unique per message
NthMessage(n) ==
    [role |-> IF n % 2 = 1 THEN "user" ELSE "assistant", content |-> <<ToString(n)>>]

\* f"{msg.role}: {msg.content}"
RoleContent(msg) == <<msg.role, ": ">> \o msg.content

\* "\n".join(f"{msg.role}: {msg.content}" for msg in msgs)
RECURSIVE JoinLines(_)
JoinLines(msgs) ==
    IF msgs = <<>> THEN <<>>
    ELSE IF Len(msgs) = 1 THEN RoleContent(msgs[1])
    ELSE RoleContent(msgs[1]) \o <<"\n">> \o JoinLines(Tail(msgs))

\* collections.deque(items, maxlen): keeps the last maxlen items
Deque(items, maxlen) ==
    IF Len(items) <= maxlen THEN items
    ELSE SubSeq(items, Len(items) - maxlen + 1, Len(items))

\* deque.append on a deque with maxlen: a full deque discards its left end
DequeAppend(d, x, maxlen) == Deque(Append(d, x), maxlen)

\* context[:-keep_recent]
ToSummarize(context) ==
    IF Len(context) <= keep_recent THEN <<>>
    ELSE SubSeq(context, 1, Len(context) - keep_recent)

\* context[-keep_recent:]
Recent(context) ==
    IF Len(context) <= keep_recent THEN context
    ELSE SubSeq(context, Len(context) - keep_recent + 1, Len(context))

\* the synthetic message _summarize_context builds
SummaryMsg(to_summarize) ==
    [role |-> "system", content |-> <<SummaryPrefix>> \o JoinLines(to_summarize)]

\* ContextManager._summarize_context, as a function of the stored deque
SummarizeContext(context, maxlen) ==
    IF ToSummarize(context) = <<>> THEN context
    ELSE Deque(<<SummaryMsg(ToSummarize(context))>> \o Recent(context), maxlen)

\* ContextManager.add_message(message, backend=key)
AddMessageResult(d, msg, maxlen, threshold) ==
    LET appended == DequeAppend(d, msg, maxlen)
    IN  IF Len(appended) >= threshold
        THEN SummarizeContext(appended, maxlen)
        ELSE appended

AddMessage(key) ==
    /\ Len(ctx_log[key]) < MaxAdds
    /\ LET msg == NthMessage(Len(ctx_log[key]) + 1)
       IN  /\ session' = [session EXCEPT
                 ![key] = AddMessageResult(@, msg, max_session_messages, summarize_threshold)]
           /\ ctx_log' = [ctx_log EXCEPT ![key] = Append(@, msg)]
    /\ UNCHANGED <<max_session_messages, summarize_threshold>>
    /\ UNCHANGED notCtx

InitCtx ==
    /\ max_session_messages \in 1..MaxCfgMessages
    /\ summarize_threshold \in 1..MaxCfgMessages
    /\ session = [k \in CtxKeys |-> <<>>]
    /\ ctx_log = [k \in CtxKeys |-> <<>>]
    /\ StreamIdle
    /\ UsageIdle
    /\ ClientIdle
    /\ RouterIdle
    /\ EntryIdle
    /\ ToolIdle
    /\ PersonaIdle
    /\ CacheIdle
    /\ CtxReadIdle
    /\ FeatureIdle
    /\ TaskIdle

NextCtx == \E key \in CtxKeys : AddMessage(key)

\* ------------------------------------------------------------------------
\* StreamHandler.handle_stream
\* ------------------------------------------------------------------------
\* largest configured max_retries
MaxRetries == 2
\* largest number of adapters handed to handle_stream (primary + fallbacks)
MaxAdapters == 2

\* LLMClient's default fallback chain; client.stream hands a prefix of it over
FallbackChain == <<"ollama", "claude", "openai", "gemini">>

\* StreamChunk as an adapter yields it (`by` is history: who built the chunk)
Chunk(p, delta, is_done, error) ==
    [kind |-> "chunk", delta |-> delta, is_done |-> is_done, error |-> error,
     provider |-> p, by |-> "adapter"]

\* stream_chat raising instead of yielding (e.g. LLMUnavailableException)
Raise(p, error) ==
    [kind |-> "raise", delta |-> "", is_done |-> FALSE, error |-> error,
     provider |-> p, by |-> "adapter"]

\* The streams an adapter of provider p can produce for one stream_chat call.
AdapterStreams(p) ==
    { \* complete answer, payload "{}"
      <<Chunk(p, "{", FALSE, None), Chunk(p, "}", FALSE, None), Chunk(p, "", TRUE, None)>>,
      \* transport failure before any content: terminal error chunk
      <<Chunk(p, "", TRUE, "ExecutionFailed")>>,
      \* credentials missing: the generator raises on first use
      <<Raise(p, "Unavailable")>>,
      \* malformed line after some content: error chunk, then the stream goes on
      <<Chunk(p, "{", FALSE, None), Chunk(p, "", FALSE, "ExecutionFailed"),
        Chunk(p, "}", FALSE, None), Chunk(p, "", TRUE, None)>>,
      \* stream without content
      <<Chunk(p, "", TRUE, None)>>,
      \* complete stream whose payload "{" is not JSON
      <<Chunk(p, "{", FALSE, None), Chunk(p, "", TRUE, None)>> }

\* StreamHandler._validate_json("".join(collected)) succeeds
ValidJson(collected) == collected = <<"{", "}">>

\* the chunk handle_stream yields when the retries of one adapter are used up
RetryExhaustedChunk(p) ==
    [kind |-> "chunk", delta |-> "", is_done |-> TRUE, error |-> "ExecutionFailed",
     provider |-> p, by |-> "coordinator"]

\* the chunk handle_stream yields after the loop over the adapters
TerminalChunk_NoError(p) ==
    [kind |-> "chunk", delta |-> "", is_done |-> TRUE, error |-> None,
     provider |-> p, by |-> "coordinator"]

TerminalChunk(p) ==
    [kind |-> "chunk", delta |-> "", is_done |-> TRUE, error |-> "ExecutionFailed",
     provider |-> p, by |-> "coordinator"]

\* `if chunk.error: raise chunk.error`, or the generator itself raising
ChunkAborts_RaiseOnly(chunk) == chunk.kind = "raise"

ChunkAborts(chunk) == chunk.kind = "raise" \/ chunk.error # None

\* `while attempts <= self.max_retries`
RetryAllowed(attempts, max_retries) == attempts <= max_retries

\* `for current_adapter in adapters`: take the next adapter or leave the loop
ForNext ==
    /\ st_pc = "for"
    /\ IF st_idx < Len(st_adapters)
       THEN st_idx' = st_idx + 1 /\ st_pc' = "while"
       ELSE st_idx' = st_idx /\ st_pc' = "final"
    /\ UNCHANGED <<st_max_retries, st_expect_json, st_adapters, st_attempts,
                   st_collected, st_stream, st_exc, st_out, st_log>>
    /\ UNCHANGED notStream

\* while condition true: collected = [] and stream_chat is invoked
WhileEnter ==
    /\ st_pc = "while"
    /\ RetryAllowed(st_attempts, st_max_retries)
    /\ \E s \in AdapterStreams(st_adapters[st_idx]) :
          /\ st_stream' = s
          /\ st_log' = Append(st_log, [adapter |-> st_idx, stream |-> s])
    /\ st_collected' = <<>>
    /\ st_pc' = "iter"
    /\ UNCHANGED <<st_max_retries, st_expect_json, st_adapters, st_idx, st_attempts,
                   st_exc, st_out>>
    /\ UNCHANGED notStream

\* while condition false: fall through to the next adapter
WhileExit ==
    /\ st_pc = "while"
    /\ ~RetryAllowed(st_attempts, st_max_retries)
    /\ st_pc' = "for"
    /\ UNCHANGED <<st_max_retries, st_expect_json, st_adapters, st_idx, st_attempts,
                   st_collected, st_stream, st_exc, st_out, st_log>>
    /\ UNCHANGED notStream

\* one iteration of `async for chunk in current_adapter.stream_chat(request)`
NextChunk ==
    /\ st_pc = "iter"
    /\ st_stream # <<>>
    /\ LET chunk == Head(st_stream)
       IN  IF ChunkAborts(chunk)
           THEN /\ st_exc' = chunk.error
                /\ st_pc' = "except"
                /\ UNCHANGED <<st_collected, st_out, st_stream>>
           ELSE /\ st_collected' = IF chunk.delta # ""
                                   THEN Append(st_collected, chunk.delta)
                                   ELSE st_collected
                /\ st_out' = Append(st_out, chunk)
                /\ st_stream' = Tail(st_stream)
                /\ UNCHANGED <<st_exc, st_pc>>
    /\ UNCHANGED <<st_max_retries, st_expect_json, st_adapters, st_idx, st_attempts, st_log>>
    /\ UNCHANGED notStream

\* the stream ended: post-stream validation, then return
StreamEnd ==
    /\ st_pc = "iter"
    /\ st_stream = <<>>
    /\ IF st_collected = <<>> \/ (st_expect_json /\ ~ValidJson(st_collected))
       THEN st_exc' = "ExecutionFailed" /\ st_pc' = "except"
       ELSE st_exc' = st_exc /\ st_pc' = "done"
    /\ UNCHANGED <<st_max_retries, st_expect_json, st_adapters, st_idx, st_attempts,
                   st_collected, st_stream, st_out, st_log>>
    /\ UNCHANGED notStream

\* `except Exception`: count the attempt; give up on this adapter or back off
Except ==
    /\ st_pc = "except"
    /\ st_attempts' = st_attempts + 1
    /\ IF st_attempts' > st_max_retries
       THEN /\ st_out' = Append(st_out, RetryExhaustedChunk(st_adapters[st_idx]))
            /\ st_pc' = "for"
       ELSE /\ st_out' = st_out
            /\ st_pc' = "while"
    /\ st_exc' = None
    /\ UNCHANGED <<st_max_retries, st_expect_json, st_adapters, st_idx,
                   st_collected, st_stream, st_log>>
    /\ UNCHANGED notStream

\* after the loop: the terminal chunk, attributed to the primary adapter
Final ==
    /\ st_pc = "final"
    /\ st_out' = Append(st_out, TerminalChunk(st_adapters[1]))
    /\ st_pc' = "done"
    /\ UNCHANGED <<st_max_retries, st_expect_json, st_adapters, st_idx, st_attempts,
                   st_collected, st_stream, st_exc, st_log>>
    /\ UNCHANGED notStream

InitStream ==
    /\ st_max_retries \in 0..MaxRetries
    /\ st_expect_json \in BOOLEAN
    /\ st_adapters \in {SubSeq(FallbackChain, 1, n) : n \in 1..MaxAdapters}
    /\ st_pc = "for"
    /\ st_idx = 0
    /\ st_attempts = 0
    /\ st_collected = <<>>
    /\ st_stream = <<>>
    /\ st_exc = None
    /\ st_out = <<>>
    /\ st_log = <<>>
    /\ CtxIdle
    /\ UsageIdle
    /\ ClientIdle
    /\ RouterIdle
    /\ EntryIdle
    /\ ToolIdle
    /\ PersonaIdle
    /\ CacheIdle
    /\ CtxReadIdle
    /\ FeatureIdle
    /\ TaskIdle

NextStream ==
    \/ ForNext
    \/ WhileEnter
    \/ WhileExit
    \/ NextChunk
    \/ StreamEnd
    \/ Except
    \/ Final

\* ------------------------------------------------------------------------
\* UsageTracker
\* ------------------------------------------------------------------------

\* number of record_usage calls per behaviour
MaxCalls == 3

\* a usage field that is missing / None
Absent == -1

\* usage=None: the request produced no usage
NoUsage ==
    [given |-> FALSE, prompt_tokens |-> Absent, completion_tokens |-> Absent,
     total_tokens |-> Absent]

UsageOf(p, c, t) ==
    [given |-> TRUE, prompt_tokens |-> p, completion_tokens |-> c, total_tokens |-> t]

\* the record_usage calls the environment makes
UsageEvents ==
    { [provider |-> "claude", model |-> "sonnet", usage |-> NoUsage],
      [provider |-> "claude", model |-> "sonnet", usage |-> UsageOf(2, 1, Absent)],
      [provider |-> "claude", model |-> "sonnet", usage |-> UsageOf(2, 1, 5)],
      [provider |-> "ollama", model |-> "deepseek", usage |-> UsageOf(Absent, 1, 0)] }

\* the instants at which the clock is read, in hours
ClockTicks == {0, 1, 2, 25, 26}

\* timedelta(hours=1) and timedelta(days=1), in hours
HourWindow == 1
DayWindow == 24

\* the limits a tracker is configured with (costs in thousandths)
MaxCostChoices == {NoLimit, 4, 8}
MaxTokensChoices == {NoLimit, 4}

\* self.pricing: provider -> model -> (input_rate_per_1k, output_rate_per_1k)
Priced(provider, model) == provider = "claude" /\ model = "sonnet"
InputRate(provider, model) == 1
OutputRate(provider, model) == 2

\* UsageTracker._read_field
ReadField(usage, field) ==
    IF ~usage.given THEN 0
    ELSE IF usage[field] = Absent THEN 0
    ELSE usage[field]

\* UsageTracker._estimate_cost, in thousandths (the division by 1000.0 is a
\* change of unit; costs and max_cost are kept in the same unit)
EstimateCost(provider, model, prompt_tokens, completion_tokens) ==
    IF ~Priced(provider, model) THEN 0
    ELSE prompt_tokens * InputRate(provider, model)
         + completion_tokens * OutputRate(provider, model)

\* `self._read_field(usage, "total_tokens") or prompt_tokens + completion_tokens`
TotalTokens_SumOnly(usage) ==
    ReadField(usage, "prompt_tokens") + ReadField(usage, "completion_tokens")

TotalTokens(usage) ==
    IF ReadField(usage, "total_tokens") # 0
    THEN ReadField(usage, "total_tokens")
    ELSE ReadField(usage, "prompt_tokens") + ReadField(usage, "completion_tokens")

\* `self.max_tokens_per_request and total_tokens > self.max_tokens_per_request`
ExceedsRequestTokens(total_tokens, limit) ==
    limit # NoLimit /\ limit # 0 /\ total_tokens > limit

\* the UsageRecord record_usage builds
NewRecord(provider, model, usage, t) ==
    [provider |-> provider, model |-> model,
     prompt_tokens |-> ReadField(usage, "prompt_tokens"),
     completion_tokens |-> ReadField(usage, "completion_tokens"),
     total_tokens |-> TotalTokens(usage),
     cost |-> EstimateCost(provider, model, ReadField(usage, "prompt_tokens"),
                           ReadField(usage, "completion_tokens")),
     success |-> usage.given,
     timestamp |-> t]

\* UsageStats.add
StatsAdd(st, backend, usage) ==
    LET old == IF backend \in DOMAIN st.by_backend
               THEN st.by_backend[backend]
               ELSE [requests |-> 0, tokens |-> 0, cost |-> 0]
        new == [requests |-> old.requests + 1,
                tokens |-> old.tokens + usage.total_tokens,
                cost |-> old.cost + usage.cost]
    IN  [total_requests |-> st.total_requests + 1,
         total_tokens |-> st.total_tokens + usage.total_tokens,
         total_cost |-> st.total_cost + usage.cost,
         by_backend |-> [b \in (DOMAIN st.by_backend) \cup {backend} |->
                            IF b = backend THEN new ELSE st.by_backend[b]]]

\* the sum of one field over a list of records
RECURSIVE SumField(_, _)
SumField(recs, field) ==
    IF recs = <<>> THEN 0 ELSE Head(recs)[field] + SumField(Tail(recs), field)

\* the records failed requests left
Failures(recs) == SelectSeq(recs, LAMBDA r : ~r.success)

\* UsageTracker.get_stats(provider, model); None filters match everything.
\* The result is a dict: a key is present only once a record added to it.
GetStats(recs, provider, model) ==
    LET filtered == SelectSeq(recs, LAMBDA r :
                        /\ (provider = None \/ r.provider = provider)
                        /\ (model = None \/ r.model = model))
        keys == (IF filtered = <<>> THEN {}
                 ELSE {"requests", "prompt_tokens", "completion_tokens",
                       "total_tokens", "cost"})
                \cup (IF Failures(filtered) = <<>> THEN {} ELSE {"errors"})
    IN  [k \in keys |->
            CASE k = "requests" -> Len(filtered)
              [] k = "errors" -> Len(Failures(filtered))
              [] OTHER -> SumField(filtered, k)]

\* `self.get_stats().get("cost", 0.0)`
StatsCost(recs) ==
    IF "cost" \in DOMAIN GetStats(recs, None, None)
    THEN GetStats(recs, None, None)["cost"]
    ELSE 0

\* `self.max_cost is not None and self.get_stats().get("cost", 0.0) > self.max_cost`
ExceedsMaxCost_AtCap(recs, limit) == limit # NoLimit /\ StatsCost(recs) >= limit

ExceedsMaxCost(recs, limit) == limit # NoLimit /\ StatsCost(recs) > limit

\* the `while window and window[0][0] < cutoff: window.popleft()` loops
RECURSIVE PruneWindow(_, _)
PruneWindow(window, cutoff) ==
    IF window # <<>> /\ Head(window)[1] < cutoff
    THEN PruneWindow(Tail(window), cutoff)
    ELSE window

\* UsageTracker._cleanup_windows at time t
CleanupHourly_Inclusive(window, t) == PruneWindow(window, t - HourWindow + 1)

CleanupHourly(window, t) == PruneWindow(window, t - HourWindow)
CleanupDaily(window, t) == PruneWindow(window, t - DayWindow)

\* What one record_usage call does to the tracker: the new state and the
\* QuotaExceededError it ends with, if any.  The clock is read once per call.
RecordUsageOutcome(provider, model, usage) ==
    LET record == NewRecord(provider, model, usage, now)
    IN  IF ExceedsRequestTokens(TotalTokens(usage), max_tokens_per_request)
        THEN [raised |-> "QuotaExceeded:tokens", records |-> records, stats |-> stats,
              hourly_stats |-> hourly_stats, daily_stats |-> daily_stats]
        ELSE [raised |-> IF ExceedsMaxCost(Append(records, record), max_cost)
                         THEN "QuotaExceeded:cost" ELSE None,
              records |-> Append(records, record),
              stats |-> StatsAdd(stats, provider, record),
              hourly_stats |-> CleanupHourly(Append(hourly_stats, <<now, record>>), now),
              daily_stats |-> CleanupDaily(Append(daily_stats, <<now, record>>), now)]

\* UsageTracker.record_usage(provider, model, usage)
RecordUsage ==
    /\ Len(ut_events) < MaxCalls
    /\ \E ev \in UsageEvents :
          LET out == RecordUsageOutcome(ev.provider, ev.model, ev.usage)
          IN  /\ records' = out.records
              /\ stats' = out.stats
              /\ hourly_stats' = out.hourly_stats
              /\ daily_stats' = out.daily_stats
              /\ ut_last' = [op |-> "record_usage", raised |-> out.raised,
                             had_records |-> Len(records), at |-> now]
              /\ ut_events' = Append(ut_events, ev)
    /\ UNCHANGED <<max_cost, max_tokens_per_request, max_cost_hourly, max_cost_daily, now>>
    /\ UNCHANGED notUsage

\* time passes between two calls
AdvanceClock ==
    /\ \E t \in ClockTicks : t > now /\ now' = t
    /\ UNCHANGED <<records, stats, hourly_stats, daily_stats, max_cost,
                   max_tokens_per_request, max_cost_hourly, max_cost_daily,
                   ut_last, ut_events>>
    /\ UNCHANGED notUsage

InitUsage ==
    /\ records = <<>>
    /\ stats = EmptyStats
    /\ hourly_stats = <<>>
    /\ daily_stats = <<>>
    /\ max_cost \in MaxCostChoices
    /\ max_tokens_per_request \in MaxTokensChoices
    /\ max_cost_hourly = NoLimit
    /\ max_cost_daily = NoLimit
    /\ now = 0
    /\ ut_last = [op |-> "none", raised |-> None, had_records |-> 0, at |-> 0]
    /\ ut_events = <<>>
    /\ CtxIdle
    /\ StreamIdle
    /\ ClientIdle
    /\ RouterIdle
    /\ EntryIdle
    /\ ToolIdle
    /\ PersonaIdle
    /\ CacheIdle
    /\ CtxReadIdle
    /\ FeatureIdle
    /\ TaskIdle

NextUsage ==
    \/ RecordUsage
    \/ AdvanceClock

\* the hourly and daily caps a tracker is constructed with (thousandths)
HourlyCapChoices == {NoLimit, 4}
DailyCapChoices == {NoLimit, 8}

\* UsageTracker._get_cost_in_window
RECURSIVE GetCostInWindow(_)
GetCostInWindow(window) ==
    IF window = <<>> THEN 0 ELSE Head(window)[2].cost + GetCostInWindow(Tail(window))

\* `hourly_cost >= self.max_cost_hourly`, under `self.max_cost_hourly is not None`
WindowQuotaReached(window, cap) == cap # NoLimit /\ GetCostInWindow(window) >= cap

\* What one check_quotas call does: the QuotaExceededError it ends with, if
\* any, and the windows it leaves.
CheckQuotasOutcome_Cleanup(hourly, daily, cap_hourly, cap_daily, t) ==
    [raised |-> IF WindowQuotaReached(CleanupHourly(hourly, t), cap_hourly)
                THEN "QuotaExceeded:hourly"
                ELSE IF WindowQuotaReached(CleanupDaily(daily, t), cap_daily)
                THEN "QuotaExceeded:daily"
                ELSE None,
     hourly_stats |-> CleanupHourly(hourly, t),
     daily_stats |-> CleanupDaily(daily, t)]

CheckQuotasOutcome(hourly, daily, cap_hourly, cap_daily, t) ==
    [raised |-> IF WindowQuotaReached(hourly, cap_hourly) THEN "QuotaExceeded:hourly"
                ELSE IF WindowQuotaReached(daily, cap_daily) THEN "QuotaExceeded:daily"
                ELSE None,
     hourly_stats |-> hourly,
     daily_stats |-> daily]

\* UsageTracker.check_quotas(backend)
CheckQuotas ==
    /\ LET out == CheckQuotasOutcome(hourly_stats, daily_stats, max_cost_hourly,
                                     max_cost_daily, now)
       IN  /\ hourly_stats' = out.hourly_stats
           /\ daily_stats' = out.daily_stats
           /\ ut_last' = [op |-> "check_quotas", raised |-> out.raised,
                          had_records |-> Len(records), at |-> now]
    /\ UNCHANGED <<records, stats, max_cost, max_tokens_per_request, max_cost_hourly,
                   max_cost_daily, now, ut_events>>
    /\ UNCHANGED notUsage

\* a tracker constructed with hourly/daily caps only
InitQuota ==
    /\ records = <<>>
    /\ stats = EmptyStats
    /\ hourly_stats = <<>>
    /\ daily_stats = <<>>
    /\ max_cost = NoLimit
    /\ max_tokens_per_request = NoLimit
    /\ max_cost_hourly \in HourlyCapChoices
    /\ max_cost_daily \in DailyCapChoices
    /\ now = 0
    /\ ut_last = [op |-> "none", raised |-> None, had_records |-> 0, at |-> 0]
    /\ ut_events = <<>>
    /\ CtxIdle
    /\ StreamIdle
    /\ ClientIdle
    /\ RouterIdle
    /\ EntryIdle
    /\ ToolIdle
    /\ PersonaIdle
    /\ CacheIdle
    /\ CtxReadIdle
    /\ FeatureIdle
    /\ TaskIdle

NextQuota ==
    \/ RecordUsage
    \/ AdvanceClock
    \/ CheckQuotas

\* ------------------------------------------------------------------------
\* CacheManager
\* ------------------------------------------------------------------------

\* capacity of the cache (max_entries)
MaxCacheEntries == 2

\* ttl_seconds, in hours (the default of 3600 seconds)
CacheTtl == 1

\* CacheManager.get_cache_key: sha256 of repr(payload); distinct payloads
\* are taken to hash to distinct keys, so the payload stands for its hash
GetCacheKey(payload) == payload

\* position of key in the store, 0 when absent
CacheIndex(store, key) ==
    IF \E i \in 1..Len(store) : store[i].key = key
    THEN CHOOSE i \in 1..Len(store) : store[i].key = key
    ELSE 0

\* the entry is older than the TTL
CacheExpired_AtTtl(entry, t) == (t - entry.ts) >= CacheTtl

CacheExpired(entry, t) == (t - entry.ts) > CacheTtl

\* CacheManager.get: the value returned (as a sequence of 0 or 1 values)
CacheGet(store, key, t) ==
    LET i == CacheIndex(store, key)
    IN  IF i = 0 THEN <<>>
        ELSE IF CacheExpired(store[i], t) THEN <<>>
        ELSE <<store[i].value>>

\* CacheManager.get: the store it leaves (expired entries are purged on lookup)
CacheAfterGet(store, key, t) ==
    LET i == CacheIndex(store, key)
    IN  IF i # 0 /\ CacheExpired(store[i], t)
        THEN SubSeq(store, 1, i - 1) \o SubSeq(store, i + 1, Len(store))
        ELSE store

\* CacheManager.set: evict the first entry when at capacity, then store
CacheSet_EvictLast(store, key, value, t) ==
    LET kept == IF Len(store) >= MaxCacheEntries
                THEN SubSeq(store, 1, Len(store) - 1) ELSE store
        i == CacheIndex(kept, key)
        entry == [key |-> key, ts |-> t, value |-> value]
    IN  IF i = 0 THEN Append(kept, entry)
        ELSE [kept EXCEPT ![i] = entry]

CacheSet(store, key, value, t) ==
    LET kept == IF Len(store) >= MaxCacheEntries THEN Tail(store) ELSE store
        i == CacheIndex(kept, key)
        entry == [key |-> key, ts |-> t, value |-> value]
    IN  IF i = 0 THEN Append(kept, entry)
        ELSE [kept EXCEPT ![i] = entry]

\* CacheManager.clear
CacheClear(store) == <<>>

\* number of calls made on the cache per behaviour
MaxCacheOps == 4

\* the keys and values the cache is called with
CacheKeys == {"k1", "k2", "k3"}
CacheValues == {"v1", "v2"}

\* CacheManager.set(key, value)
CacheSetOp ==
    /\ ca_ops < MaxCacheOps
    /\ \E key \in CacheKeys, value \in CacheValues :
          /\ cache_store' = CacheSet(cache_store, key, value, now)
          /\ ca_last' = [op |-> "set", key |-> key, value |-> value, returned |-> <<>>,
                         store_before |-> cache_store, at |-> now]
    /\ ca_ops' = ca_ops + 1
    /\ UNCHANGED <<utVars, notCache>>

\* CacheManager.get(key)
CacheGetOp ==
    /\ ca_ops < MaxCacheOps
    /\ \E key \in CacheKeys :
          /\ cache_store' = CacheAfterGet(cache_store, key, now)
          /\ ca_last' = [op |-> "get", key |-> key, value |-> None,
                         returned |-> CacheGet(cache_store, key, now),
                         store_before |-> cache_store, at |-> now]
    /\ ca_ops' = ca_ops + 1
    /\ UNCHANGED <<utVars, notCache>>

\* CacheManager.clear()
CacheClearOp ==
    /\ ca_ops < MaxCacheOps
    /\ cache_store' = CacheClear(cache_store)
    /\ ca_last' = [op |-> "clear", key |-> None, value |-> None, returned |-> <<>>,
                   store_before |-> cache_store, at |-> now]
    /\ ca_ops' = ca_ops + 1
    /\ UNCHANGED <<utVars, notCache>>

InitCache ==
    /\ cache_store = <<>>
    /\ ca_ops = 0
    /\ ca_last = [op |-> "none", key |-> None, value |-> None, returned |-> <<>>,
                  store_before |-> <<>>, at |-> 0]
    /\ ClientIdle
    /\ UsageIdle
    /\ CtxIdle
    /\ StreamIdle
    /\ RouterIdle
    /\ EntryIdle
    /\ ToolIdle
    /\ PersonaIdle
    /\ CtxReadIdle
    /\ FeatureIdle
    /\ TaskIdle

NextCache ==
    \/ CacheSetOp
    \/ CacheGetOp
    \/ CacheClearOp
    \/ AdvanceClock

\* ------------------------------------------------------------------------
\* ToolEngine
\* ------------------------------------------------------------------------

\* ToolEngine._registry after _register_builtin_tools
RegisteredTools == {"read_file", "write_file", "list_directory", "run_shell_command"}

\* Tool.requires_approval of the built-in tools
RequiresApproval(name) == name \in {"write_file", "run_shell_command"}

\* fnmatch(path, glob) on the paths and globs of the model
Fnmatch(path, glob) ==
    \/ glob = "*"
    \/ glob = path
    \/ glob = "/tmp/*" /\ path \in {"/tmp/a", "/tmp/b"}

\* the tool calls a model response can carry
ToolCallChoices ==
    { [id |-> "t1", name |-> "write_file", arg_keys |-> <<"path", "content">>, path |-> "/etc/a"],
      [id |-> "t2", name |-> "write_file", arg_keys |-> <<"path", "content">>, path |-> "/tmp/a"],
      [id |-> "t3", name |-> "read_file", arg_keys |-> <<"path">>, path |-> "/etc/a"],
      [id |-> "t4", name |-> "no_such_tool", arg_keys |-> <<>>, path |-> None] }

\* is_whitelisted that never looks at the path
IsWhitelisted_ToolOnly(patterns, tool_name, call) ==
    \E i \in 1..Len(patterns) : patterns[i].tool_pattern \in {tool_name, "**"}

\* PermissionManager.is_whitelisted
RECURSIVE IsWhitelisted(_, _, _)
IsWhitelisted(patterns, tool_name, call) ==
    IF patterns = <<>> THEN FALSE
    ELSE LET pat == Head(patterns)
         IN  IF pat.tool_pattern \notin {tool_name, "**"}
             THEN IsWhitelisted(Tail(patterns), tool_name, call)
             ELSE IF pat.arg_pattern = None THEN TRUE
             ELSE IF call.path # None /\ Fnmatch(call.path, pat.arg_pattern) THEN TRUE
             ELSE IsWhitelisted(Tail(patterns), tool_name, call)

\* _enforce_permissions that asks in manual mode but ignores the answer
EnforcePermissions_AnswerIgnored(mode, whitelist, call, approved) ==
    IF mode = "deny" THEN FALSE
    ELSE IF mode = "trust" THEN TRUE
    ELSE IF mode = "auto"
    THEN ~(RequiresApproval(call.name) /\ call.name \notin whitelist)
         \/ IsWhitelisted(auto_approve_patterns, call.name, call)
    ELSE TRUE

\* _enforce_permissions where the whitelist also counts in deny mode
EnforcePermissions_DenyHonoursWhitelist(mode, whitelist, call, approved) ==
    IF mode = "deny" THEN call.name \in whitelist
    ELSE IF mode = "trust" THEN TRUE
    ELSE IF mode = "auto"
    THEN ~(RequiresApproval(call.name) /\ call.name \notin whitelist)
         \/ IsWhitelisted(auto_approve_patterns, call.name, call)
    ELSE ~(RequiresApproval(call.name) /\ call.name \notin whitelist) \/ approved

\* ToolEngine._enforce_permissions: TRUE when it returns, FALSE when it
\* raises PermissionError; `approved` is the answer request_approval gives
EnforcePermissions(mode, whitelist, call, approved) ==
    IF mode = "deny" THEN FALSE
    ELSE IF mode = "trust" THEN TRUE
    ELSE IF mode = "auto"
    THEN ~(RequiresApproval(call.name) /\ call.name \notin whitelist)
         \/ IsWhitelisted(auto_approve_patterns, call.name, call)
    ELSE ~(RequiresApproval(call.name) /\ call.name \notin whitelist) \/ approved

\* _audit that also records the `path` argument
AuditLines_WithPath(enabled, call, success, t) ==
    IF ~enabled THEN <<>>
    ELSE <<[timestamp |-> t, tool |-> call.name, success |-> success,
            arg_keys |-> call.arg_keys, path |-> call.path]>>

\* _audit that records every attempt as a success
AuditLines_AlwaysSuccess(enabled, call, success, t) ==
    IF ~enabled THEN <<>>
    ELSE <<[timestamp |-> t, tool |-> call.name, success |-> TRUE,
            arg_keys |-> call.arg_keys]>>

\* ToolEngine._audit: the lines one call adds to the log
AuditLines(enabled, call, success, t) ==
    IF ~enabled THEN <<>>
    ELSE <<[timestamp |-> t, tool |-> call.name, success |-> success,
            arg_keys |-> call.arg_keys]>>

\* ToolEngine.execute_tool: the exception it ends with (None: it returns the
\* handler's result) and the audit lines it writes.  `handler` is what the
\* handler does when run: "ok", "raise" or "timeout".
ExecuteToolOutcome(call, approved, handler) ==
    IF call.name \notin RegisteredTools
    THEN [raised |-> "ValueError", audit |-> <<>>, invoked |-> FALSE]
    ELSE IF ~EnforcePermissions(permission_mode, tool_whitelist, call, approved)
    THEN [raised |-> "PermissionError", audit |-> <<>>, invoked |-> FALSE]
    ELSE IF handler # "ok"
    THEN [raised |-> IF handler = "timeout" THEN "TimeoutError" ELSE "HandlerError",
          audit |-> AuditLines(audit_enabled, call, FALSE, now), invoked |-> TRUE]
    ELSE [raised |-> None,
          audit |-> AuditLines(audit_enabled, call, TRUE, now), invoked |-> TRUE]

\* LLMClient.execute_tool: the dict it returns; it never raises
ClientToolResult(call, outcome) ==
    IF outcome.raised = None
    THEN [toolCallId |-> call.id, result |-> "result", error |-> None, approved |-> TRUE]
    ELSE [toolCallId |-> call.id, result |-> None, error |-> outcome.raised,
          approved |-> FALSE]

\* ---- ToolEngine.execute_tool, one step at a time -------------------------

\* number of execute_tool calls a behaviour makes
MaxToolCalls == 2

\* the values config tools.auto_approve can have: no pattern, "tool:glob",
\* a bare "tool", and "**:glob"
PatternChoices ==
    { <<>>,
      AutoApprovePatterns,
      <<[tool_pattern |-> "write_file", arg_pattern |-> None]>>,
      <<[tool_pattern |-> "**", arg_pattern |-> "*"]>> }

\* execute_tool without the registry check
ToolLookup_NoRegistryCheck ==
    /\ te_pc \in {"idle", "done"}
    /\ Len(te_attempts) < MaxToolCalls
    /\ \E call \in ToolCallChoices :
          /\ te_call' = call
          /\ IF FALSE
             THEN /\ te_pc' = "done"
                  /\ te_exc' = "ValueError"
                  /\ te_trace' = <<"lookup", "raise">>
                  /\ te_attempts' = Append(te_attempts,
                        [call |-> call, mode |-> permission_mode,
                         raised |-> "ValueError", audit |-> <<>>,
                         trace |-> <<"lookup", "raise">>])
             ELSE /\ te_pc' = "permission"
                  /\ te_exc' = None
                  /\ te_trace' = <<"lookup">>
                  /\ UNCHANGED te_attempts
    /\ te_worker' = "none"
    /\ now' = now + 1
    /\ UNCHANGED <<auto_approve_patterns, permission_mode, tool_whitelist, audit_enabled,
                   audit_log>>
    /\ UNCHANGED notTool

\* execute_tool(name, args) is called: `if name not in self._registry: raise
\* ValueError`, else `tool = self._registry[name]`
ToolLookup ==
    /\ te_pc \in {"idle", "done"}
    /\ Len(te_attempts) < MaxToolCalls
    /\ \E call \in ToolCallChoices :
          /\ te_call' = call
          /\ IF call.name \notin RegisteredTools
             THEN /\ te_pc' = "done"
                  /\ te_exc' = "ValueError"
                  /\ te_trace' = <<"lookup", "raise">>
                  /\ te_attempts' = Append(te_attempts,
                        [call |-> call, mode |-> permission_mode,
                         raised |-> "ValueError", audit |-> <<>>,
                         trace |-> <<"lookup", "raise">>])
             ELSE /\ te_pc' = "permission"
                  /\ te_exc' = None
                  /\ te_trace' = <<"lookup">>
                  /\ UNCHANGED te_attempts
    /\ te_worker' = "none"
    /\ now' = now + 1
    /\ UNCHANGED <<auto_approve_patterns, permission_mode, tool_whitelist, audit_enabled,
                   audit_log>>
    /\ UNCHANGED notTool

\* self._enforce_permissions(tool, args); in manual mode request_approval asks
\* the approval callback, or the prompt, and gets `approved`
ToolEnforce ==
    /\ te_pc = "permission"
    /\ LET asks == /\ permission_mode \notin {"deny", "trust", "auto"}
                    /\ RequiresApproval(te_call.name)
                    /\ te_call.name \notin tool_whitelist
       IN  \E approved \in (IF asks THEN BOOLEAN ELSE {FALSE}) :
             LET events == IF asks THEN <<"permission", IF approved THEN "approved"
                                                        ELSE "refused">>
                           ELSE <<"permission">>
             IN  IF EnforcePermissions(permission_mode, tool_whitelist, te_call, approved)
                 THEN /\ te_pc' = "submit"
                      /\ te_trace' = te_trace \o events
                      /\ UNCHANGED <<te_exc, te_attempts>>
                 ELSE /\ te_pc' = "done"
                      /\ te_exc' = "PermissionError"
                      /\ te_trace' = te_trace \o events \o <<"raise">>
                      /\ te_attempts' = Append(te_attempts,
                            [call |-> te_call, mode |-> permission_mode,
                             raised |-> "PermissionError", audit |-> <<>>,
                             trace |-> te_trace \o events \o <<"raise">>])
    /\ UNCHANGED <<auto_approve_patterns, te_call, te_worker, permission_mode,
                   tool_whitelist, audit_enabled, audit_log, now>>
    /\ UNCHANGED notTool

\* _execute_sandboxed: `future = executor.submit(tool.handler, args)`, the
\* handler starts on the executor's worker thread
ToolSubmit ==
    /\ te_pc = "submit"
    /\ te_pc' = "wait"
    /\ te_worker' = "running"
    /\ te_trace' = Append(te_trace, "handler")
    /\ UNCHANGED <<auto_approve_patterns, te_call, te_exc, te_attempts, permission_mode,
                   tool_whitelist, audit_enabled, audit_log, now>>
    /\ UNCHANGED notTool

\* `future.result(timeout=...)` returns: the handler returned in time; leaving
\* the `with` block joins the finished worker at once
HandlerReturns ==
    /\ te_pc = "wait"
    /\ te_pc' = "audit"
    /\ te_worker' = "finished"
    /\ te_trace' = Append(te_trace, "handler_returned")
    /\ UNCHANGED <<auto_approve_patterns, te_call, te_exc, te_attempts, permission_mode,
                   tool_whitelist, audit_enabled, audit_log, now>>
    /\ UNCHANGED notTool

\* `future.result(timeout=...)` re-raises what the handler raised in time
HandlerRaises ==
    /\ te_pc = "wait"
    /\ te_pc' = "audit"
    /\ te_exc' = "HandlerError"
    /\ te_worker' = "finished"
    /\ te_trace' = Append(te_trace, "handler_raised")
    /\ UNCHANGED <<auto_approve_patterns, te_call, te_attempts, permission_mode,
                   tool_whitelist, audit_enabled, audit_log, now>>
    /\ UNCHANGED notTool

\* `future.result(timeout=...)` raises TimeoutError while the handler is
\* still running; the exception leaves the `with ThreadPoolExecutor()` block,
\* whose __exit__ is shutdown(wait=True)
TimeoutExpires ==
    /\ te_pc = "wait"
    /\ te_pc' = "shutdown"
    /\ te_exc' = "TimeoutError"
    /\ te_trace' = Append(te_trace, "timeout")
    /\ UNCHANGED <<auto_approve_patterns, te_call, te_worker, te_attempts,
                   permission_mode, tool_whitelist, audit_enabled, audit_log, now>>
    /\ UNCHANGED notTool

\* shutdown(wait=True) returns when the worker thread has finished the
\* handler, however long that takes; only then is the `except` clause reached
ShutdownJoin ==
    /\ te_pc = "shutdown"
    /\ te_worker = "running"
    /\ te_worker' = "finished"
    /\ te_pc' = "audit"
    /\ te_trace' = Append(te_trace, "worker_joined")
    /\ UNCHANGED <<auto_approve_patterns, te_call, te_exc, te_attempts, permission_mode,
                   tool_whitelist, audit_enabled, audit_log, now>>
    /\ UNCHANGED notTool

\* `self._audit(tool.name, args, success=False)` in the except clause of
\* _execute_sandboxed, or `self._audit(name, args, success=True)` in
\* execute_tool
ToolAudit ==
    /\ te_pc = "audit"
    /\ te_pc' = "finish"
    /\ audit_log' = audit_log \o AuditLines(audit_enabled, te_call, te_exc = None, now)
    /\ te_trace' = IF audit_enabled THEN Append(te_trace, "audit") ELSE te_trace
    /\ UNCHANGED <<auto_approve_patterns, te_call, te_exc, te_worker, te_attempts,
                   permission_mode, tool_whitelist, audit_enabled, now>>
    /\ UNCHANGED notTool

\* `raise exc` of _execute_sandboxed, or `return result` of execute_tool
ToolFinish ==
    /\ te_pc = "finish"
    /\ te_pc' = "done"
    /\ te_trace' = Append(te_trace, IF te_exc = None THEN "return" ELSE "raise")
    /\ te_attempts' = Append(te_attempts,
          [call |-> te_call, mode |-> permission_mode, raised |-> te_exc,
           audit |-> AuditLines(audit_enabled, te_call, te_exc = None, now),
           trace |-> Append(te_trace, IF te_exc = None THEN "return" ELSE "raise")])
    /\ UNCHANGED <<auto_approve_patterns, te_call, te_exc, te_worker, permission_mode,
                   tool_whitelist, audit_enabled, audit_log, now>>
    /\ UNCHANGED notTool

InitTool ==
    /\ auto_approve_patterns \in PatternChoices
    /\ te_pc = "idle"
    /\ te_call = [name |-> None, arg_keys |-> <<>>, path |-> None]
    /\ te_exc = None
    /\ te_worker = "none"
    /\ te_trace = <<>>
    /\ te_attempts = <<>>
    /\ cache_store = <<>>
    /\ permission_mode \in {"manual", "auto", "deny", "trust"}
    /\ tool_whitelist \in {{}, {"write_file"}}
    /\ audit_enabled \in BOOLEAN
    /\ audit_log = <<>>
    /\ cl_pc = "idle"
    /\ cl_providers = <<>>
    /\ cl_i = 0
    /\ cl_response = <<>>
    /\ cl_pending = <<>>
    /\ cl_tool_results = <<>>
    /\ cl_result = [kind |-> "none", error |-> None]
    /\ cl_tried = <<>>
    /\ cl_quota_at = 0
    /\ cl_denied = FALSE
    /\ UsageIdle
    /\ CtxIdle
    /\ StreamIdle
    /\ RouterIdle
    /\ EntryIdle
    /\ CacheIdle
    /\ PersonaIdle
    /\ CtxReadIdle
    /\ FeatureIdle
    /\ TaskIdle

NextTool ==
    \/ ToolLookup
    \/ ToolEnforce
    \/ ToolSubmit
    \/ HandlerReturns
    \/ HandlerRaises
    \/ TimeoutExpires
    \/ ShutdownJoin
    \/ ToolAudit
    \/ ToolFinish

\* ------------------------------------------------------------------------
\* LLMClient.chat and the orchestrator's chat turn
\* ------------------------------------------------------------------------

\* client.fallback_chain of the chat specification
ChatChain == <<"ollama", "claude">>

\* LLMOrchestrator._default_model
DefaultModel(provider) ==
    CASE provider = "claude" -> "sonnet"
      [] provider = "ollama" -> "deepseek"
      [] provider = "openai" -> "gpt"
      [] OTHER -> "gemini-pro"

\* the tool_calls a ChatResponse can carry
ToolCallLists == {<<>>} \cup {<<c>> : c \in ToolCallChoices}

\* what adapter.chat(request) can do: return a response or raise
AdapterOutcomes ==
    { [ok |-> TRUE, error |-> None, usage |-> u, tool_calls |-> tc] :
        u \in {UsageOf(2, 1, Absent), UsageOf(2, 1, 5)}, tc \in ToolCallLists }
    \cup
    { [ok |-> FALSE, error |-> e, usage |-> NoUsage, tool_calls |-> <<>>] :
        e \in {"Unavailable", "ExecutionFailed"} }

\* `[preferred_provider] + [p for p in fallback_chain if p != preferred_provider]`
ProvidersFor(preferred) ==
    <<preferred>> \o SelectSeq(ChatChain, LAMBDA p : p # preferred)

\* LLMClient._record_usage: record_usage with every exception swallowed
ClientRecordUsage(provider, model, usage) ==
    LET out == RecordUsageOutcome(provider, model, usage)
    IN  /\ records' = out.records
        /\ stats' = out.stats
        /\ hourly_stats' = out.hourly_stats
        /\ daily_stats' = out.daily_stats
        /\ ut_last' = [op |-> "record_usage", raised |-> out.raised,
                       had_records |-> Len(records), at |-> now]
        /\ ut_events' = Append(ut_events, [provider |-> provider, model |-> model,
                                           usage |-> usage])
        /\ cl_quota_at' = IF out.raised # None /\ cl_quota_at = 0
                          THEN Len(cl_tried')
                          ELSE cl_quota_at

\* the cache key of LLMClient.chat: the payload is the messages, the model
\* and, under "provider", str(request.metadata)
RequestCacheKey(request) ==
    GetCacheKey([messages |-> request.messages, model |-> request.model,
                 provider |-> request.metadata])

\* the ChatRequest the orchestrator builds for a provider
ChatRequestFor(messages, provider) ==
    [messages |-> messages, model |-> DefaultModel(provider), provider |-> provider,
     metadata |-> "{}"]

\* the model an adapter answers with: `request.model or self.default_model`
ResponseModel(request) ==
    IF request.model = None THEN DefaultModel(request.provider) ELSE request.model

\* LLMClient.chat(request) for a request that names its provider.  It sets
\* the cache, the tracker and cl_tried; `returned` is the response handed
\* back (0 or 1 of them), an empty `returned` is the LLMExecutionException
\* "All providers failed".
ClientChatRequest(request, returned) ==
    LET key == RequestCacheKey(request)
        provider == request.provider
        cached == CacheGet(cache_store, key, now)
    IN  IF cached # <<>>
        THEN /\ returned = cached
             /\ cache_store' = cache_store
             /\ UNCHANGED <<records, stats, hourly_stats, daily_stats, ut_last,
                            ut_events, cl_tried, cl_quota_at>>
        ELSE \E o \in AdapterOutcomes :
             /\ cl_tried' = Append(cl_tried, provider)
             /\ IF o.ok
                THEN LET response == [content |-> "reply", provider |-> provider,
                                      model |-> ResponseModel(request),
                                      usage |-> o.usage, tool_calls |-> o.tool_calls]
                     IN  /\ returned = <<response>>
                         /\ ClientRecordUsage(provider, response.model, response.usage)
                         /\ cache_store' = CacheSet(CacheAfterGet(cache_store, key, now),
                                                    key, response, now)
                ELSE /\ returned = <<>>
                     /\ cache_store' = CacheAfterGet(cache_store, key, now)
                     /\ UNCHANGED <<records, stats, hourly_stats, daily_stats, ut_last,
                                    ut_events, cl_quota_at>>

\* client.chat as the orchestrator calls it
ClientChat(messages, provider, returned) ==
    ClientChatRequest(ChatRequestFor(messages, provider), returned)

\* number of LLMClient.chat calls made directly per behaviour
MaxClientRequests == 2

\* the requests LLMClient.chat is called with directly
DirectRequests ==
    [messages : {"m1", "m2"}, model : {None},
     provider : {"claude", "openai"}, metadata : {"{}"}]

\* the responses such a call can hand back
DirectResponses ==
    [content : {"reply"}, provider : {"claude", "openai"},
     model : {DefaultModel("claude"), DefaultModel("openai")},
     usage : {UsageOf(2, 1, Absent), UsageOf(2, 1, 5)}, tool_calls : ToolCallLists]

\* LLMClient.chat(request), called directly
ClientChatDirect ==
    /\ ca_ops < MaxClientRequests
    /\ \E request \in DirectRequests,
          returned \in {<<>>} \cup {<<r>> : r \in DirectResponses} :
          /\ ClientChatRequest(request, returned)
          /\ cl_response' = returned
          /\ cl_result' = IF returned = <<>>
                           THEN [kind |-> "error", error |-> "ExecutionFailed"]
                           ELSE [kind |-> "response", error |-> None]
          /\ ca_last' = [op |-> "chat", key |-> request, value |-> None,
                         returned |-> returned, store_before |-> cache_store,
                         at |-> now]
    /\ ca_ops' = ca_ops + 1
    /\ UNCHANGED <<permission_mode, tool_whitelist, audit_enabled, audit_log,
                   cl_pc, cl_providers, cl_i, cl_pending, cl_tool_results, cl_denied>>
    /\ UNCHANGED <<max_cost, max_tokens_per_request, max_cost_hourly, max_cost_daily,
                   now>>
    /\ UNCHANGED <<ctxVars, stVars, rtVars, orVars, teVars, pmVars, cxVars, ftVars,
                   tkVars>>

InitClientCache ==
    /\ cache_store = <<>>
    /\ ca_ops = 0
    /\ ca_last = [op |-> "none", key |-> None, value |-> None, returned |-> <<>>,
                  store_before |-> <<>>, at |-> 0]
    /\ ClientIdle
    /\ UsageIdle
    /\ CtxIdle
    /\ StreamIdle
    /\ RouterIdle
    /\ EntryIdle
    /\ ToolIdle
    /\ PersonaIdle
    /\ CtxReadIdle
    /\ FeatureIdle
    /\ TaskIdle

NextClientCache ==
    \/ ClientChatDirect

\* LLMOrchestrator._chat_with_fallback: build the list of providers
StartTurn ==
    /\ cl_pc = "idle"
    /\ \E preferred \in {ChatChain[i] : i \in 1..Len(ChatChain)} :
          cl_providers' = ProvidersFor(preferred)
    /\ cl_i' = 1
    /\ cl_pc' = "fallback"
    /\ UNCHANGED <<cache_store, permission_mode, tool_whitelist, audit_enabled, audit_log,
                   cl_response, cl_pending, cl_tool_results, cl_result, cl_tried,
                   cl_quota_at, cl_denied>>
    /\ UNCHANGED <<utVars, notChat>>

\* one iteration of the loop of _chat_with_fallback: client.chat(request)
TryProvider ==
    /\ cl_pc = "fallback"
    /\ \E returned \in {<<>>} \cup {<<r>> : r \in
            [content : {"reply"}, provider : {cl_providers[cl_i]},
             model : {DefaultModel(cl_providers[cl_i])},
             usage : {UsageOf(2, 1, Absent), UsageOf(2, 1, 5)},
             tool_calls : ToolCallLists]} :
          /\ ClientChat("turn", cl_providers[cl_i], returned)
          /\ IF returned # <<>>
             THEN /\ cl_response' = returned
                  /\ cl_pending' = returned[1].tool_calls
                  /\ cl_i' = cl_i
                  /\ cl_pc' = IF returned[1].tool_calls # <<>> THEN "tools" ELSE "record"
                  /\ cl_result' = cl_result
             ELSE /\ UNCHANGED <<cl_response, cl_pending>>
                  /\ IF cl_i < Len(cl_providers)
                     THEN cl_i' = cl_i + 1 /\ cl_pc' = "fallback" /\ cl_result' = cl_result
                     ELSE cl_i' = cl_i /\ cl_pc' = "done"
                          /\ cl_result' = [kind |-> "error", error |-> "ExecutionFailed"]
    /\ UNCHANGED <<permission_mode, tool_whitelist, audit_enabled, audit_log,
                   cl_providers, cl_tool_results, cl_denied>>
    /\ UNCHANGED <<max_cost, max_tokens_per_request, max_cost_hourly, max_cost_daily, now>>
    /\ UNCHANGED notChat

\* _handle_tool_calls: `tool_result = await self.client.execute_tool(call)`
ExecuteTool ==
    /\ cl_pc = "tools"
    /\ cl_pending # <<>>
    /\ \E approved \in BOOLEAN, handler \in {"ok", "raise", "timeout"} :
          LET call == Head(cl_pending)
              outcome == ExecuteToolOutcome(call, approved, handler)
          IN  /\ cl_tool_results' = Append(cl_tool_results, ClientToolResult(call, outcome))
              /\ audit_log' = audit_log \o outcome.audit
              /\ cl_denied' = (cl_denied \/ outcome.raised = "PermissionError")
    /\ cl_pending' = Tail(cl_pending)
    /\ UNCHANGED <<cache_store, permission_mode, tool_whitelist, audit_enabled,
                   cl_pc, cl_providers, cl_i, cl_response, cl_result, cl_tried, cl_quota_at>>
    /\ UNCHANGED <<utVars, notChat>>

\* _handle_tool_calls: the follow-up client.chat with the tool results, sent
\* to the provider selected for the turn; its exception is not caught
FollowUp ==
    /\ cl_pc = "tools"
    /\ cl_pending = <<>>
    /\ \E returned \in {<<>>} \cup {<<r>> : r \in
            [content : {"reply"}, provider : {cl_providers[1]},
             model : {DefaultModel(cl_providers[1])},
             usage : {UsageOf(2, 1, Absent), UsageOf(2, 1, 5)},
             tool_calls : ToolCallLists]} :
          /\ ClientChat("follow_up", cl_providers[1], returned)
          /\ IF returned # <<>>
             THEN cl_response' = returned
                  /\ cl_pc' = "record"
                  /\ cl_result' = cl_result
             ELSE cl_response' = cl_response
                  /\ cl_pc' = "done"
                  /\ cl_result' = [kind |-> "error", error |-> "ExecutionFailed"]
    /\ UNCHANGED <<permission_mode, tool_whitelist, audit_enabled, audit_log,
                   cl_providers, cl_i, cl_pending, cl_tool_results, cl_denied>>
    /\ UNCHANGED <<max_cost, max_tokens_per_request, max_cost_hourly, max_cost_daily, now>>
    /\ UNCHANGED notChat

\* LLMOrchestrator._record_context: add_message is called as
\* add_message(backend_key, ChatMessage), so the ChatMessage arrives as the
\* `backend` parameter and becomes the dict key; a ChatMessage (a dataclass
\* with eq and without frozen) is unhashable and `key not in self._session`
\* raises TypeError
AddMessageSwapped(backend_key, message) == "TypeError"

\* the end of LLMOrchestrator.chat: `self._record_context(...)`, `return response`
RecordContext ==
    /\ cl_pc = "record"
    /\ cl_pc' = "done"
    /\ cl_result' = IF AddMessageSwapped(cl_providers[1], "user") = None
                     THEN [kind |-> "response", error |-> None]
                     ELSE [kind |-> "error",
                           error |-> AddMessageSwapped(cl_providers[1], "user")]
    /\ UNCHANGED <<cache_store, permission_mode, tool_whitelist, audit_enabled, audit_log,
                   cl_providers, cl_i, cl_response, cl_pending, cl_tool_results,
                   cl_tried, cl_quota_at, cl_denied>>
    /\ UNCHANGED <<utVars, notChat>>

\* a response an earlier, identical request left in the cache
CachedTurn ==
    [key |-> GetCacheKey([messages |-> "turn", model |-> DefaultModel("ollama"),
                          provider |-> "{}"]),
     ts |-> 0,
     value |-> [content |-> "reply", provider |-> "ollama",
                model |-> DefaultModel("ollama"),
                usage |-> UsageOf(2, 1, Absent), tool_calls |-> <<>>]]

InitChat ==
    /\ cache_store \in {<<>>, <<CachedTurn>>}
    /\ permission_mode \in {"manual", "auto", "deny", "trust"}
    /\ tool_whitelist \in {{}, {"write_file"}}
    /\ audit_enabled = TRUE
    /\ audit_log = <<>>
    /\ cl_pc = "idle"
    /\ cl_providers = <<>>
    /\ cl_i = 0
    /\ cl_response = <<>>
    /\ cl_pending = <<>>
    /\ cl_tool_results = <<>>
    /\ cl_result = [kind |-> "none", error |-> None]
    /\ cl_tried = <<>>
    /\ cl_quota_at = 0
    /\ cl_denied = FALSE
    /\ records = <<>>
    /\ stats = EmptyStats
    /\ hourly_stats = <<>>
    /\ daily_stats = <<>>
    /\ max_cost \in MaxCostChoices
    /\ max_tokens_per_request \in MaxTokensChoices
    /\ max_cost_hourly = NoLimit
    /\ max_cost_daily = NoLimit
    /\ now = 0
    /\ ut_last = [op |-> "none", raised |-> None, had_records |-> 0, at |-> 0]
    /\ ut_events = <<>>
    /\ CtxIdle
    /\ StreamIdle
    /\ RouterIdle
    /\ EntryIdle
    /\ ToolIdle
    /\ PersonaIdle
    /\ CacheIdle
    /\ CtxReadIdle
    /\ FeatureIdle
    /\ TaskIdle

NextChat ==
    \/ StartTurn
    \/ TryProvider
    \/ ExecuteTool
    \/ FollowUp
    \/ RecordContext

\* ------------------------------------------------------------------------
\* ModelRouter
\* ------------------------------------------------------------------------

\* number of router calls per behaviour
MaxRouterOps == 3

\* ModelRouter.max_chars_local (config max_chars_local_model), scaled down
max_chars_local == 2

\* the content sizes route is called with
ContentSizes == 0..(max_chars_local + 2)

\* ModelRole
ModelRoles == {"ARCHITECT", "CODER", "BOILERPLATE", "REVIEWER", "PARSER"}

\* what adapter.check_health() can do: return a ProviderHealth with this
\* status, or raise
HealthOutcomes == {"healthy", "down", "raise"}

\* one step of the loop of check_availability: the status stored for an
\* adapter whose check_health ended with `outcome`
StoredStatus(outcome) == IF outcome = "raise" THEN "down" ELSE outcome

\* ModelRouter.check_availability: the cache it leaves, the adapters whose
\* check_health it called and the exception it ends with, when the
\* check_health of adapter p ends with outcomes[p]
CheckAvailabilityOutcome_StopOnRaise(cache, outcomes) ==
    LET failing == {i \in 1..Len(RouterAdapters) : outcomes[RouterAdapters[i]] = "raise"}
        stop == IF failing = {} THEN Len(RouterAdapters)
                ELSE CHOOSE i \in failing : \A j \in failing : i <= j
    IN  [health_cache |-> [p \in AllProviders |->
                             IF \E i \in 1..stop : RouterAdapters[i] = p
                                                   /\ outcomes[p] # "raise"
                             THEN outcomes[p] ELSE cache[p]],
         checks |-> SubSeq(RouterAdapters, 1, stop),
         raised |-> IF failing = {} THEN None ELSE "Exception"]

CheckAvailabilityOutcome(cache, outcomes) ==
    [health_cache |-> [p \in AllProviders |-> StoredStatus(outcomes[p])],
     checks |-> RouterAdapters,
     raised |-> None]

\* ModelRouter._is_ollama_available: its result, the cache it leaves and
\* whether it called ollama.check_health (which then ends with `health`)
IsOllamaAvailable(cache, health) ==
    IF cache["ollama"] = "healthy"
    THEN [available |-> TRUE, health_cache |-> cache, checks |-> <<>>]
    ELSE [available |-> (health = "healthy"),
          health_cache |-> [cache EXCEPT !["ollama"] = StoredStatus(health)],
          checks |-> <<"ollama">>]

\* `content_size <= self.max_chars_local`
FitsLocal_Strict(size) == size < max_chars_local

FitsLocal(size) == size <= max_chars_local

\* `if role == ModelRole.ARCHITECT: return self.claude`
RouteArchitect_IfHealthy(cache) == IF cache["claude"] = "down" THEN "gemini" ELSE "claude"

RouteArchitect(cache) == "claude"

\* ModelRouter.route(role, content_size): the provider of the adapter it
\* returns, the cache it leaves and the check_health calls it made
RouteOutcome(role, size, cache, health) ==
    LET avail == IsOllamaAvailable(cache, health)
        fixed(p) == [returned |-> p, health_cache |-> cache, checks |-> <<>>]
    IN  CASE role = "ARCHITECT" -> fixed(RouteArchitect(cache))
          [] role = "REVIEWER" -> fixed("openai")
          [] role = "BOILERPLATE" -> fixed("gemini")
          [] role = "PARSER" ->
                IF ~FitsLocal(size) THEN fixed("gemini")
                ELSE [returned |-> IF avail.available THEN "ollama" ELSE "gemini",
                      health_cache |-> avail.health_cache, checks |-> avail.checks]
          [] OTHER ->
                [returned |-> IF avail.available /\ FitsLocal(size)
                              THEN "ollama" ELSE "gemini",
                 health_cache |-> avail.health_cache, checks |-> avail.checks]

\* ModelRouter.check_availability()
CheckAvailability ==
    /\ rt_ops < MaxRouterOps
    /\ \E outcomes \in [AllProviders -> HealthOutcomes] :
          LET out == CheckAvailabilityOutcome(health_cache, outcomes)
          IN  /\ health_cache' = out.health_cache
              /\ rt_last' = [op |-> "check_availability", role |-> None, size |-> 0,
                             health |-> outcomes, returned |-> None,
                             available |-> FALSE, checks |-> out.checks,
                             raised |-> out.raised, cache_before |-> health_cache]
    /\ rt_ops' = rt_ops + 1
    /\ UNCHANGED notRouter

\* ModelRouter.route(role, content_size)
Route ==
    /\ rt_ops < MaxRouterOps
    /\ \E role \in ModelRoles, size \in ContentSizes, health \in HealthOutcomes :
          LET out == RouteOutcome(role, size, health_cache, health)
          IN  /\ health_cache' = out.health_cache
              /\ rt_last' = [op |-> "route", role |-> role, size |-> size,
                             health |-> health, returned |-> out.returned,
                             available |-> IsOllamaAvailable(health_cache, health).available,
                             checks |-> out.checks, raised |-> None,
                             cache_before |-> health_cache]
    /\ rt_ops' = rt_ops + 1
    /\ UNCHANGED notRouter

InitRouter ==
    /\ health_cache = [p \in AllProviders |-> "absent"]
    /\ rt_ops = 0
    /\ rt_last = NoRouterCall
    /\ CtxIdle
    /\ StreamIdle
    /\ UsageIdle
    /\ ClientIdle
    /\ EntryIdle
    /\ ToolIdle
    /\ PersonaIdle
    /\ CacheIdle
    /\ CtxReadIdle
    /\ FeatureIdle
    /\ TaskIdle

NextRouter ==
    \/ CheckAvailability
    \/ Route

\* ------------------------------------------------------------------------
\* LLMOrchestrator.chat / LLMOrchestrator.stream: from the call to the first
\* request sent to an adapter.  Text is a sequence of characters here.
\* ------------------------------------------------------------------------

\* BACKEND_ALIASES
BackendAliases ==
    [b \in {"claude", "anthropic", "openai", "codex", "gemini", "google", "ollama",
            "deepseek"} |->
        CASE b \in {"claude", "anthropic"} -> "claude"
          [] b \in {"openai", "codex"} -> "openai"
          [] b \in {"gemini", "google"} -> "gemini"
          [] OTHER -> "ollama"]

\* the names PersonaManager knows
PersonaNames == {"general-assistant", "code-specialist", "fast-parser",
                 "context-distiller", "local-coder", "architect"}

\* a text of n characters
Chars(n) == [i \in 1..n |-> "x"]

\* Persona.system_prompt of the built-in personas, scaled down
SystemPrompt(persona) == Chars(4)

\* config context_distill_trigger_tokens, scaled down
context_distill_trigger_tokens == 3

\* the arguments chat/stream are called with
EntryBackends == {None, "claude", "deepseek", "no-such-backend"}
EntryPersonas == {None, "architect", "fast-parser", "no-such-persona"}
EntryTaskTypes == {"chat", "review"}
EntryMessages == {Chars(0), Chars(4), Chars(8)}

\* what ContextManager.retrieve finds in the persistent memory
MemoryHits == {<<>>, <<Chars(3)>>}

\* the session contexts an orchestrator can hold when a call arrives
EntrySessions ==
    { [k \in {"openai"} |-> <<>>],
      [k \in {"global"} |-> <<[role |-> "user", content |-> Chars(4)]>>],
      [k \in {"claude"} |-> <<[role |-> "assistant", content |-> Chars(16)]>>],
      [k \in {"global", "claude"} |->
          IF k = "global" THEN <<[role |-> "user", content |-> Chars(2)]>>
          ELSE <<[role |-> "user", content |-> Chars(4)],
                 [role |-> "assistant", content |-> Chars(3)]>>] }

\* the per-request token limits of the tracker
EntryTokenLimits == {NoLimit, 0, 2}

\* LLMOrchestrator._role_for_task
RoleForTask(task_type, persona) ==
    CASE persona = "architect" -> "ARCHITECT"
      [] persona = "code-specialist" -> "CODER"
      [] persona = "fast-parser" -> "PARSER"
      [] persona = "context-distiller" -> "PARSER"
      [] task_type = "review" -> "REVIEWER"
      [] task_type = "boilerplate" -> "BOILERPLATE"
      [] OTHER -> "CODER"

\* LLMOrchestrator._estimate_size of a str message
EstimateSize(message) == Len(message)

\* LLMOrchestrator._select_provider: the provider, or the KeyError it raises,
\* the health cache routing leaves and the check_health calls it made
SelectProvider(backend, persona, message, task_type, cache, health) ==
    IF backend # None
    THEN IF backend \notin DOMAIN BackendAliases
         THEN [raised |-> "KeyError", provider |-> None, health_cache |-> cache,
               checks |-> <<>>]
         ELSE [raised |-> None, provider |-> BackendAliases[backend],
               health_cache |-> cache, checks |-> <<>>]
    ELSE LET out == RouteOutcome(RoleForTask(task_type, persona), EstimateSize(message),
                                 cache, health)
         IN  [raised |-> None, provider |-> out.returned,
              health_cache |-> out.health_cache, checks |-> out.checks]

\* PersonaManager.get: the KeyError it raises for an unknown name
PersonaGet(persona) ==
    IF persona # None /\ persona \notin PersonaNames THEN "KeyError" ELSE None

\* `self._session.get(key, [])`
SessionGet(sess, key) == IF key \in DOMAIN sess THEN sess[key] ELSE <<>>

GetContext_BackendFirst(sess, backend) ==
    IF backend = "global" THEN SessionGet(sess, "global")
    ELSE SessionGet(sess, backend) \o SessionGet(sess, "global")
\* ContextManager.get_context(backend)
GetContext(sess, backend) ==
    IF backend = "global" THEN SessionGet(sess, "global")
    ELSE SessionGet(sess, "global") \o SessionGet(sess, backend)

\* `ChatMessage(role="system", content=f"[Memory] {m}")` for every memory hit
MemoryMessages(memories) ==
    [i \in 1..Len(memories) |->
        [role |-> "system",
         content |-> <<"[", "M", "e", "m", "o", "r", "y", "]", " ">> \o memories[i]]]

\* LLMOrchestrator._memory_blend
MemoryBlend(sess, backend_key, memories) ==
    GetContext(sess, backend_key) \o MemoryMessages(memories)

\* `sum(len(m.content) for m in messages)`
RECURSIVE SumChars(_)
SumChars(messages) ==
    IF messages = <<>> THEN 0 ELSE Len(Head(messages).content) + SumChars(Tail(messages))

\* LLMOrchestrator._estimate_tokens: max(1, chars // 4)
EstimateTokens(messages) ==
    IF SumChars(messages) \div 4 > 1 THEN SumChars(messages) \div 4 ELSE 1

\* LLMOrchestrator._should_distill
ShouldDistill(messages) == EstimateTokens(messages) > context_distill_trigger_tokens

\* _prepare_messages that appends the context after the user message
PrepareMessages_ContextLast(incoming, provider, persona, include_context, sess, memories) ==
    LET system == <<[role |-> "system", content |-> SystemPrompt(persona)]>>
        context_messages == MemoryBlend(sess, provider, memories)
        user == <<[role |-> "user", content |-> incoming]>>
    IN  IF ~include_context
        THEN [raised |-> None, messages |-> system \o user]
        ELSE IF ShouldDistill(context_messages)
        THEN [raised |-> "AttributeError", messages |-> <<>>]
        ELSE [raised |-> None, messages |-> system \o user \o context_messages]

\* LLMOrchestrator._prepare_messages: the prepared list, or the
\* AttributeError of `self.context_manager.distill` (ContextManager has no
\* such method)
PrepareMessages(incoming, provider, persona, include_context, sess, memories) ==
    LET system == IF SystemPrompt(persona) # <<>>
                  THEN <<[role |-> "system", content |-> SystemPrompt(persona)]>>
                  ELSE <<>>
        context_messages == MemoryBlend(sess, provider, memories)
        user == <<[role |-> "user", content |-> incoming]>>
    IN  IF ~include_context
        THEN [raised |-> None, messages |-> system \o user]
        ELSE IF ShouldDistill(context_messages)
        THEN [raised |-> "AttributeError", messages |-> <<>>]
        ELSE [raised |-> None, messages |-> system \o context_messages \o user]

\* UsageTracker.check_request_budget(estimated_tokens): it raises
\* QuotaExceededError (estimated_cost is None on this path)
BudgetExceeded_CostOnly(estimated_tokens, limit) == FALSE

BudgetExceeded(estimated_tokens, limit) ==
    limit # NoLimit /\ limit # 0 /\ estimated_tokens > limit

\* chat/stream up to and including check_request_budget
EntryCall ==
    /\ or_pc = "idle"
    /\ \E entry \in {"chat", "stream"}, backend \in EntryBackends,
          persona \in EntryPersonas, task_type \in EntryTaskTypes,
          message \in EntryMessages, include_context \in BOOLEAN,
          memories \in MemoryHits, health \in HealthOutcomes :
          LET sel == SelectProvider(backend, persona, message, task_type,
                                    health_cache, health)
              prep == PrepareMessages(message, sel.provider, persona, include_context,
                                      session, memories)
              raised == IF sel.raised # None THEN sel.raised
                        ELSE IF PersonaGet(persona) # None THEN PersonaGet(persona)
                        ELSE IF prep.raised # None THEN prep.raised
                        ELSE IF BudgetExceeded(EstimateTokens(prep.messages),
                                               max_tokens_per_request)
                        THEN "QuotaExceeded"
                        ELSE None
              prepared == sel.raised = None /\ PersonaGet(persona) = None
                          /\ prep.raised = None
          IN  /\ health_cache' = sel.health_cache
              /\ or_call' = [entry |-> entry, provider |-> sel.provider,
                             estimated_tokens |-> IF prepared
                                                  THEN EstimateTokens(prep.messages)
                                                  ELSE 0,
                             persona |-> persona, include_context |-> include_context,
                             message |-> message,
                             messages |-> IF prepared THEN prep.messages ELSE <<>>]
              /\ or_result' = IF raised = None THEN or_result
                              ELSE [kind |-> "error", error |-> raised]
              /\ or_pc' = IF raised = None THEN "request" ELSE "done"
    /\ or_before' = <<session, records>>
    /\ UNCHANGED <<or_invoked, rt_ops, rt_last, ctxVars, utVars>>
    /\ UNCHANGED notEntry

\* the first request of the call reaches an adapter (client.chat from
\* _chat_with_fallback, or client.stream); a response with usage is recorded
EntryRequest ==
    /\ or_pc = "request"
    /\ or_invoked' = Append(or_invoked, or_call.provider)
    /\ \E o \in AdapterOutcomes :
          IF o.ok
          THEN LET out == RecordUsageOutcome(or_call.provider,
                                             DefaultModel(or_call.provider), o.usage)
               IN  /\ records' = out.records
                   /\ stats' = out.stats
                   /\ hourly_stats' = out.hourly_stats
                   /\ daily_stats' = out.daily_stats
                   /\ ut_last' = [op |-> "record_usage", raised |-> out.raised,
                                  had_records |-> Len(records), at |-> now]
                   /\ ut_events' = Append(ut_events,
                                          [provider |-> or_call.provider,
                                           model |-> DefaultModel(or_call.provider),
                                           usage |-> o.usage])
                   /\ or_result' = [kind |-> "sent", error |-> None]
          ELSE /\ UNCHANGED <<records, stats, hourly_stats, daily_stats, ut_last,
                              ut_events>>
               /\ or_result' = [kind |-> "sent", error |-> o.error]
    /\ or_pc' = "done"
    /\ UNCHANGED <<or_call, or_before, rtVars, ctxVars, max_cost,
                   max_tokens_per_request, max_cost_hourly, max_cost_daily, now>>
    /\ UNCHANGED notEntry

InitEntry ==
    /\ or_pc = "idle"
    /\ or_call = [entry |-> None, provider |-> None, estimated_tokens |-> 0,
                  persona |-> None, include_context |-> FALSE, message |-> <<>>,
                  messages |-> <<>>]
    /\ or_result = [kind |-> "none", error |-> None]
    /\ or_invoked = <<>>
    /\ or_before = <<>>
    /\ session \in EntrySessions
    /\ max_session_messages = 1
    /\ summarize_threshold = 1
    /\ ctx_log = [k \in {"openai"} |-> <<>>]
    /\ health_cache \in {[p \in AllProviders |-> "absent"],
                         [p \in AllProviders |-> "healthy"]}
    /\ rt_ops = 0
    /\ rt_last = NoRouterCall
    /\ records = <<>>
    /\ stats = EmptyStats
    /\ hourly_stats = <<>>
    /\ daily_stats = <<>>
    /\ max_cost = NoLimit
    /\ max_tokens_per_request \in EntryTokenLimits
    /\ max_cost_hourly = NoLimit
    /\ max_cost_daily = NoLimit
    /\ now = 0
    /\ ut_last = [op |-> "none", raised |-> None, had_records |-> 0, at |-> 0]
    /\ ut_events = <<>>
    /\ StreamIdle
    /\ ClientIdle
    /\ CacheIdle
    /\ ToolIdle
    /\ PersonaIdle
    /\ CtxReadIdle
    /\ FeatureIdle
    /\ TaskIdle

NextEntry ==
    \/ EntryCall
    \/ EntryRequest

\* ------------------------------------------------------------------------
\* PersonaManager
\* ------------------------------------------------------------------------

\* number of PersonaManager calls a behaviour makes
MaxPersonaOps == 3

\* set_active that assigns before it checks the name
SetActiveOutcome_AssignFirst(active, name) ==
    IF name \notin PersonaNames
    THEN [raised |-> "KeyError", active |-> name, returned |-> None]
    ELSE [raised |-> None, active |-> name, returned |-> name]

\* PersonaManager.set_active: the KeyError it raises, the active name it
\* leaves and the persona it returns
SetActiveOutcome(active, name) ==
    IF name \notin PersonaNames
    THEN [raised |-> "KeyError", active |-> active, returned |-> None]
    ELSE [raised |-> None, active |-> name, returned |-> name]

\* set_active(name), also what LLMOrchestrator.set_persona does
SetActive ==
    /\ pm_ops < MaxPersonaOps
    /\ \E name \in PersonaNames \cup {"no-such-persona"} :
          LET out == SetActiveOutcome(pm_active, name)
          IN  /\ pm_active' = out.active
              /\ pm_last' = [op |-> "set_active", name |-> name, raised |-> out.raised,
                             returned |-> out.returned, active_before |-> pm_active]
    /\ pm_ops' = pm_ops + 1
    /\ UNCHANGED notPersona

\* get(name): the named persona, the active one for None, KeyError for an
\* unknown name
GetPersona ==
    /\ pm_ops < MaxPersonaOps
    /\ \E name \in PersonaNames \cup {None, "no-such-persona"} :
          pm_last' = [op |-> "get", name |-> name, raised |-> PersonaGet(name),
                      returned |-> IF PersonaGet(name) # None THEN None
                                   ELSE IF name = None THEN pm_active ELSE name,
                      active_before |-> pm_active]
    /\ pm_ops' = pm_ops + 1
    /\ UNCHANGED pm_active
    /\ UNCHANGED notPersona

InitPersona ==
    /\ pm_active = "general-assistant"
    /\ pm_ops = 0
    /\ pm_last = [op |-> "none", name |-> None, raised |-> None, returned |-> None,
                  active_before |-> "general-assistant"]
    /\ CtxIdle
    /\ StreamIdle
    /\ UsageIdle
    /\ ClientIdle
    /\ RouterIdle
    /\ EntryIdle
    /\ CacheIdle
    /\ ToolIdle
    /\ CtxReadIdle
    /\ FeatureIdle
    /\ TaskIdle

NextPersona ==
    \/ SetActive
    \/ GetPersona

\* ------------------------------------------------------------------------
\* ContextManager: get_context and distill_async
\* ------------------------------------------------------------------------
\* add_message calls per behaviour under the key "openai"
MaxReadAdds == 11
\* add_message calls per behaviour under each other key
MaxOtherAdds == 2
\* distill_async calls per behaviour
MaxDistills == 1

\* the configured session_max_messages, auto_summarize_threshold and
\* distillation_trigger_tokens
ReadConfigs == {<<2, 40, 1>>, <<12, 11, 4>>}

\* the session keys of this specification
ReadKeys == {"global", "openai", "claude"}

\* len(content) of the messages added: 4, 9, 2, 4, 9, 2, ...
ReadSizes == <<4, 9, 2>>

\* the n-th message added under `key`: its content starts with the key and
\* the position, so no two messages are equal
ReadMessage(key, n) ==
    [role |-> IF n % 2 = 1 THEN "user" ELSE "assistant",
     content |-> <<key, ToString(n)>> \o Chars(ReadSizes[((n - 1) % 3) + 1] - 2)]

\* `backend or "global"`
KeyFor(backend) == IF backend = None THEN "global" ELSE backend

\* ContextManager._trim_to_tokens: walks the messages from the newest and
\* stops at the first one that does not fit
RECURSIVE TrimToTokens(_, _)
TrimToTokens(messages, max_tokens) ==
    IF messages = <<>> THEN <<>>
    ELSE LET msg == Last(messages)
             msg_tokens == Len(msg.content) \div 4
         IN  IF msg_tokens > max_tokens THEN <<>>
             ELSE Append(TrimToTokens(SubSeq(messages, 1, Len(messages) - 1),
                                      max_tokens - msg_tokens), msg)

\* ContextManager.get_context(backend, max_tokens): `if max_tokens:` is false
\* for None (NoLimit here) and for 0
GetContextMax(sess, backend, max_tokens) ==
    LET context == GetContext(sess, KeyFor(backend))
    IN  IF max_tokens # NoLimit /\ max_tokens # 0
        THEN TrimToTokens(context, max_tokens)
        ELSE context

\* ContextManager._estimate_tokens: max(1, chars // 4)
CtxEstimateTokens(messages) ==
    IF SumChars(messages) \div 4 > 1 THEN SumChars(messages) \div 4 ELSE 1

\* history[-8:]
KeepTail(history) ==
    IF Len(history) <= 8 THEN history ELSE SubSeq(history, Len(history) - 7, Len(history))

\* context_text[:2000], scaled down
DistillTextLimit == 20
Truncated(text) ==
    IF Len(text) <= DistillTextLimit THEN text ELSE SubSeq(text, 1, DistillTextLimit)

\* f"[Context distilled] Task: {current_task or ''}\n{context_text[:2000]}";
\* a hint of None is the empty text here
FallbackSummary(context, current_task) ==
    <<"[Context distilled] Task: ">> \o current_task \o <<"\n">>
        \o Truncated(JoinLines(context))

\* what can be attached as `orchestrator`: nothing; the LLMOrchestrator of
\* this package, which has no _build_direct_request; any other object that
\* offers _build_direct_request and client.chat
OrchestratorKinds == {"none", "LLMOrchestrator", "stub"}

\* what the secondary client.chat call of a stub does
SecondaryOutcomes == {"content", "empty", "Unavailable", "ExecutionFailed"}

\* whether the code reaches `self.orchestrator.client.chat(request)`
SecondaryCalled(orchestrator) == orchestrator = "stub"

\* how the try block of _distill_context_async ends
SecondaryResult(orchestrator, outcome) ==
    IF orchestrator = "none" THEN "not_attempted"
    ELSE IF orchestrator = "LLMOrchestrator" THEN "AttributeError"
    ELSE outcome

\* ContextManager._distill_context_async: the summary message; `outcome` is
\* what client.chat does when it is reached
DistillContextAsync(context, current_task, orchestrator, outcome) ==
    \* `distilled_summary`, with <<>> for both None and the empty text
    LET distilled_summary ==
            IF orchestrator = "none" THEN <<>>
            ELSE IF orchestrator = "LLMOrchestrator" THEN <<>>   \* AttributeError, caught
            ELSE IF outcome = "content" THEN <<"distilled by the model">>
            ELSE <<>>                           \* empty content, or raised and caught
    IN  [role |-> "system",
         content |-> IF distilled_summary = <<>>
                     THEN FallbackSummary(context, current_task)
                     ELSE distilled_summary]

\* the list distill_async builds when distillation runs
Distilled(history, hint, orchestrator, outcome) ==
    <<DistillContextAsync(history, hint, orchestrator, outcome)>> \o KeepTail(history)

\* whether distill_async goes past its two early returns
DistillRuns(history, trigger) ==
    history # <<>> /\ CtxEstimateTokens(history) > trigger

\* add_message(message, backend)
CtxAdd(backend) ==
    /\ Len(ctx_log[KeyFor(backend)]) <
           (IF backend = "openai" THEN MaxReadAdds ELSE MaxOtherAdds)
    /\ LET key == KeyFor(backend)
           msg == ReadMessage(key, Len(ctx_log[key]) + 1)
       IN  /\ session' = [session EXCEPT
                 ![key] = AddMessageResult(@, msg, max_session_messages, summarize_threshold)]
           /\ ctx_log' = [ctx_log EXCEPT ![key] = Append(@, msg)]
           /\ cx_last' = [op |-> "add_message", backend |-> backend, max_tokens |-> NoLimit,
                          hint |-> <<>>, returned |-> <<>>, llm_called |-> FALSE,
                          secondary |-> "not_attempted", raised |-> None,
                          session_before |-> session]
    /\ UNCHANGED <<max_session_messages, summarize_threshold, distillation_trigger_tokens,
                   cx_orchestrator, cx_ops>>
    /\ UNCHANGED notCtxRead

\* get_context(backend, max_tokens)
CtxGet(backend, max_tokens) ==
    /\ cx_last' = [op |-> "get_context", backend |-> backend, max_tokens |-> max_tokens,
                   hint |-> <<>>, returned |-> GetContextMax(session, backend, max_tokens),
                   llm_called |-> FALSE, secondary |-> "not_attempted", raised |-> None,
                   session_before |-> session]
    /\ UNCHANGED <<ctxVars, distillation_trigger_tokens, cx_orchestrator, cx_ops>>
    /\ UNCHANGED notCtxRead

\* distill_async(backend, hint)
DistillAsync(backend, hint, outcome) ==
    /\ cx_ops < MaxDistills
    /\ LET history == SessionGet(session, backend)
           runs == DistillRuns(history, distillation_trigger_tokens)
           distilled == Distilled(history, hint, cx_orchestrator, outcome)
       IN  /\ session' = IF runs
                         THEN [session EXCEPT ![backend] = Deque(distilled, max_session_messages)]
                         ELSE session
           /\ cx_last' = [op |-> "distill_async", backend |-> backend, max_tokens |-> NoLimit,
                          hint |-> hint,
                          returned |-> IF runs THEN distilled ELSE history,
                          llm_called |-> runs /\ SecondaryCalled(cx_orchestrator),
                          secondary |-> IF runs THEN SecondaryResult(cx_orchestrator, outcome)
                                        ELSE "not_attempted",
                          raised |-> None, session_before |-> session]
    /\ cx_ops' = cx_ops + 1
    /\ UNCHANGED <<max_session_messages, summarize_threshold, ctx_log,
                   distillation_trigger_tokens, cx_orchestrator>>
    /\ UNCHANGED notCtxRead

InitCtxRead ==
    /\ \E cfg \in ReadConfigs :
          /\ max_session_messages = cfg[1]
          /\ summarize_threshold = cfg[2]
          /\ distillation_trigger_tokens = cfg[3]
    /\ session = [k \in ReadKeys |-> <<>>]
    /\ ctx_log = [k \in ReadKeys |-> <<>>]
    /\ cx_orchestrator \in OrchestratorKinds
    /\ cx_ops = 0
    /\ cx_last = [op |-> "none", backend |-> None, max_tokens |-> NoLimit, hint |-> <<>>,
                  returned |-> <<>>, llm_called |-> FALSE, secondary |-> "not_attempted",
                  raised |-> None, session_before |-> <<>>]
    /\ StreamIdle
    /\ UsageIdle
    /\ ClientIdle
    /\ RouterIdle
    /\ EntryIdle
    /\ CacheIdle
    /\ ToolIdle
    /\ PersonaIdle
    /\ FeatureIdle
    /\ TaskIdle

NextCtxRead ==
    \/ \E backend \in {None, "openai", "claude"} : CtxAdd(backend)
    \/ \E backend \in {None, "openai", "claude"}, max_tokens \in {NoLimit, 0, 1, 3} :
          CtxGet(backend, max_tokens)
    \/ \E backend \in ReadKeys, hint \in {<<"t", "a", "s", "k">>},
          outcome \in SecondaryOutcomes :
          DistillAsync(backend, hint, outcome)

\* ------------------------------------------------------------------------
\* Feature: per-task conversation log
\* ------------------------------------------------------------------------
\* append_task_conversation and clear_task_conversation calls per behaviour
MaxFeatureOps == 3

\* the roles and messages append_task_conversation is called with
FeatureRoles == {"user", "assistant"}
FeatureMessages == {"hello", ""}

\* a Python str as json.dump writes it and json.load reads it back
JsonString(text) == [type |-> "string", value |-> text]

\* str(value) of a value json.load produced
Str(json) ==
    CASE json.type = "string" -> json.value
      [] json.type = "null" -> "None"
      [] OTHER -> "?"

\* datetime.utcnow().isoformat(): the calls so far stand for the clock
Timestamp(ops) == ToString(ops)

\* Persistence.save_json(conv_path, {"entries": entries})
SaveJson(entries) == [exists |-> TRUE, entries |-> entries]

\* Feature.load_task_conversation_entries: no file gives []; otherwise every
\* item of data["entries"] with its three fields passed through str().  The
\* files written by save_json always are a dict with an "entries" list, so
\* the newline-delimited fallback is not reached.
LoadTaskConversationEntries(files, task_id) ==
    IF ~files[task_id].exists THEN <<>>
    ELSE [i \in 1..Len(files[task_id].entries) |->
            [timestamp |-> Str(files[task_id].entries[i].timestamp),
             role |-> Str(files[task_id].entries[i].role),
             content |-> Str(files[task_id].entries[i].content)]]

\* the dicts of loaded entries as json.dump writes them
JsonEntries(entries) ==
    [i \in 1..Len(entries) |->
        [timestamp |-> JsonString(entries[i].timestamp),
         role |-> JsonString(entries[i].role),
         content |-> JsonString(entries[i].content)]]

\* the entries append_task_conversation saves: the loaded ones and the new one
AppendedEntries_NewOnly(files, task_id, ops, role, message) ==
    <<[timestamp |-> Timestamp(ops), role |-> role, content |-> message]>>
AppendedEntries(files, task_id, ops, role, message) ==
    Append(LoadTaskConversationEntries(files, task_id),
           [timestamp |-> Timestamp(ops), role |-> role, content |-> message])

\* Feature.append_task_conversation(task_id, role, message)
AppendTaskConversation(task_id, role, message) ==
    /\ ft_ops < MaxFeatureOps
    /\ ft_files' = [ft_files EXCEPT ![task_id] =
          SaveJson(JsonEntries(AppendedEntries(ft_files, task_id, ft_ops, role, message)))]
    /\ ft_appended' = [ft_appended EXCEPT ![task_id] = Append(@, <<role, message>>)]
    /\ ft_ops' = ft_ops + 1
    /\ ft_last' = [op |-> "append", task |-> task_id, returned |-> <<>>]
    /\ UNCHANGED notFeature

\* Feature.clear_task_conversation(task_id)
ClearTaskConversation(task_id) ==
    /\ ft_ops < MaxFeatureOps
    /\ ft_files' = [ft_files EXCEPT ![task_id] = SaveJson(<<>>)]
    /\ ft_appended' = [ft_appended EXCEPT ![task_id] = <<>>]
    /\ ft_ops' = ft_ops + 1
    /\ ft_last' = [op |-> "clear", task |-> task_id, returned |-> <<>>]
    /\ UNCHANGED notFeature

\* Feature.load_task_conversation_entries(task_id), called by a client
LoadEntries(task_id) ==
    /\ ft_last' = [op |-> "load", task |-> task_id,
                   returned |-> LoadTaskConversationEntries(ft_files, task_id)]
    /\ UNCHANGED <<ft_files, ft_appended, ft_ops>>
    /\ UNCHANGED notFeature

InitFeature ==
    /\ ft_files = [t \in FeatureTasks |-> NoFile]
    /\ ft_appended = [t \in FeatureTasks |-> <<>>]
    /\ ft_ops = 0
    /\ ft_last = [op |-> "none", task |-> None, returned |-> <<>>]
    /\ CtxIdle
    /\ StreamIdle
    /\ UsageIdle
    /\ ClientIdle
    /\ RouterIdle
    /\ EntryIdle
    /\ CacheIdle
    /\ ToolIdle
    /\ PersonaIdle
    /\ CtxReadIdle
    /\ TaskIdle

NextFeature ==
    \/ \E t \in FeatureTasks, role \in FeatureRoles, message \in FeatureMessages :
          AppendTaskConversation(t, role, message)
    \/ \E t \in FeatureTasks : ClearTaskConversation(t)
    \/ \E t \in FeatureTasks : LoadEntries(t)

\* ------------------------------------------------------------------------
\* TaskCoordinator.execute
\* ------------------------------------------------------------------------
\* largest number of steps of a task
MaxSteps == 3

\* the id a step has at each position unless it repeats the first id
StepIds == <<"a", "b", "c", "d">>

\* the `dependencies` of a step: none, one or two known ids, an unknown id
DependencyChoices == {{}, {"a"}, {"b"}, {"c"}, {"z"}, {"a", "b"}}

\* the step lists of n steps: ids may repeat, dependencies may form cycles
RECURSIVE StepLists(_)
StepLists(n) ==
    IF n = 0 THEN {<<>>}
    ELSE { Append(steps, [id |-> id, dependencies |-> deps]) :
             steps \in StepLists(n - 1),
             id \in {StepIds[n], StepIds[1]},
             deps \in DependencyChoices }

TaskChoices == UNION {StepLists(n) : n \in 0..MaxSteps}

\* TaskCoordinator._find_next_step: the position of the first step whose id
\* is not completed and whose dependencies all are (0: None)
FindNextStep_IgnoreDependencies(steps, completed) ==
    IF \E i \in 1..Len(steps) : steps[i].id \notin completed
    THEN CHOOSE i \in 1..Len(steps) :
            /\ steps[i].id \notin completed
            /\ \A j \in 1..(i - 1) : steps[j].id \in completed
    ELSE 0
FindNextStep(steps, completed) ==
    LET Ready(i) == steps[i].id \notin completed /\ steps[i].dependencies \subseteq completed
    IN  IF \E i \in 1..Len(steps) : Ready(i)
        THEN CHOOSE i \in 1..Len(steps) : Ready(i) /\ \A j \in 1..(i - 1) : ~Ready(j)
        ELSE 0

\* the loop head of execute: leave the loop, give up, or start the next step
TaskLoop ==
    /\ tk_pc = "loop"
    /\ IF Cardinality(tk_completed) < Len(tk_task)
       THEN LET next_step == FindNextStep(tk_task, tk_completed)
            IN  IF next_step = 0
                THEN /\ tk_result' = [tk_result EXCEPT !.errors =
                            Append(@, "Circular dependencies or blocked steps")]
                     /\ tk_pc' = "return"
                     /\ UNCHANGED <<tk_status, tk_next, tk_calls>>
                ELSE /\ tk_status' = [tk_status EXCEPT ![next_step] = "in_progress"]
                     /\ tk_next' = next_step
                     /\ tk_calls' = Append(tk_calls, next_step)
                     /\ tk_pc' = "chat"
                     /\ UNCHANGED tk_result
       ELSE /\ tk_pc' = "return"
            /\ UNCHANGED <<tk_status, tk_next, tk_calls, tk_result>>
    /\ UNCHANGED <<tk_task, tk_completed>>
    /\ UNCHANGED notTask

\* orchestrator.chat returned a response
StepCompleted ==
    /\ tk_pc = "chat"
    /\ tk_status' = [tk_status EXCEPT ![tk_next] = "completed"]
    /\ tk_completed' = tk_completed \cup {tk_task[tk_next].id}
    /\ tk_pc' = "loop"
    /\ UNCHANGED <<tk_task, tk_next, tk_calls, tk_result>>
    /\ UNCHANGED notTask

\* orchestrator.chat raised: `except Exception`, then `break`
StepFailed ==
    /\ tk_pc = "chat"
    /\ tk_status' = [tk_status EXCEPT ![tk_next] = "failed"]
    /\ tk_result' = [tk_result EXCEPT !.errors = Append(@, "Step failed")]
    /\ tk_pc' = "return"
    /\ UNCHANGED <<tk_task, tk_completed, tk_next, tk_calls>>
    /\ UNCHANGED notTask

\* `success = len(completed_steps) == len(task.steps)`, `return TaskResult(...)`
TaskReturn ==
    /\ tk_pc = "return"
    /\ tk_result' = [tk_result EXCEPT !.success = (Cardinality(tk_completed) = Len(tk_task))]
    /\ tk_pc' = "done"
    /\ UNCHANGED <<tk_task, tk_completed, tk_status, tk_next, tk_calls>>
    /\ UNCHANGED notTask

\* execute(task) was called with a task whose steps are all pending
InitTask ==
    /\ tk_task \in TaskChoices
    /\ tk_pc = "loop"
    /\ tk_completed = {}
    /\ tk_status = [i \in 1..Len(tk_task) |-> "pending"]
    /\ tk_next = 0
    /\ tk_calls = <<>>
    /\ tk_result = [success |-> FALSE, errors |-> <<>>]
    /\ CtxIdle
    /\ StreamIdle
    /\ UsageIdle
    /\ ClientIdle
    /\ RouterIdle
    /\ EntryIdle
    /\ CacheIdle
    /\ ToolIdle
    /\ PersonaIdle
    /\ CtxReadIdle
    /\ FeatureIdle

NextTask ==
    \/ TaskLoop
    \/ StepCompleted
    \/ StepFailed
    \/ TaskReturn

\* ------------------------------------------------------------------------
\* Specifications
\* ------------------------------------------------------------------------
SpecCtx == InitCtx /\ [][NextCtx]_vars

SpecStream == InitStream /\ [][NextStream]_vars

\* handle_stream is a coroutine the caller keeps consuming: every step that
\* can be taken is eventually taken
FairSpecStream == SpecStream /\ WF_vars(NextStream)

SpecUsage == InitUsage /\ [][NextUsage]_vars

SpecQuota == InitQuota /\ [][NextQuota]_vars

SpecRouter == InitRouter /\ [][NextRouter]_vars

SpecEntry == InitEntry /\ [][NextEntry]_vars

SpecCache == InitCache /\ [][NextCache]_vars

SpecClientCache == InitClientCache /\ [][NextClientCache]_vars

SpecChat == InitChat /\ [][NextChat]_vars

SpecTool == InitTool /\ [][NextTool]_vars

SpecPersona == InitPersona /\ [][NextPersona]_vars

SpecCtxRead == InitCtxRead /\ [][NextCtxRead]_vars

SpecFeature == InitFeature /\ [][NextFeature]_vars

SpecTask == InitTask /\ [][NextTask]_vars

\* execute is a coroutine its caller awaits, and the chat call it awaits
\* returns or raises: every step that can be taken is eventually taken
FairSpecTask == SpecTask /\ WF_vars(NextTask)

\* ------------------------------------------------------------------------
\* Claims
\* ------------------------------------------------------------------------

\* ---- C1 ----------------------------------------------------------------

\* msg is a synthetic summary message
IsSummary(msg) ==
    msg.role = "system" /\ Len(msg.content) >= 1 /\ msg.content[1] = SummaryPrefix

\* msg is one of the elements of the stored history
StoredVerbatim(hist, msg) == \E i \in 1..Len(hist) : hist[i] = msg

\* the number of summary messages of the history whose text contains "role: content" of msg
SummariesHolding(hist, msg) ==
    Cardinality({i \in 1..Len(hist) :
                    IsSummary(hist[i]) /\ Contains(hist[i].content, RoleContent(msg))})

\* C1: after every add_message the history has at most session_max_messages
\* entries and every message no longer stored verbatim is contained in exactly
\* one summary message that is still in the history, for every configuration.
C1_NeverDroppedSilently ==
    \A k \in CtxKeys :
        /\ Len(session[k]) <= max_session_messages
        /\ \A n \in 1..Len(ctx_log[k]) :
              \/ StoredVerbatim(session[k], ctx_log[k][n])
              \/ SummariesHolding(session[k], ctx_log[k][n]) = 1

\* ---- handle_stream: vocabulary of the claims C2..C6 ----------------------

\* the stream_chat invocations made on adapter number i, as indices of st_log
AttemptsOn(i) == {k \in 1..Len(st_log) : st_log[k].adapter = i}

\* the chunks of a stream before its first error (or raise)
RECURSIVE ErrorFreePrefix(_)
ErrorFreePrefix(stream) ==
    IF stream = <<>> THEN <<>>
    ELSE IF Head(stream).kind = "raise" \/ Head(stream).error # None THEN <<>>
    ELSE <<Head(stream)>> \o ErrorFreePrefix(Tail(stream))

\* the non-empty deltas of a stream, in order
RECURSIVE Deltas(_)
Deltas(stream) ==
    IF stream = <<>> THEN <<>>
    ELSE IF Head(stream).delta # "" THEN <<Head(stream).delta>> \o Deltas(Tail(stream))
    ELSE Deltas(Tail(stream))

\* an attempt that consumes this stream succeeds
StreamSucceeds(stream) ==
    /\ ErrorFreePrefix(stream) = stream
    /\ Deltas(stream) # <<>>
    /\ st_expect_json => Deltas(stream) = <<"{", "}">>

\* the stream fails on its first chunk
ErrorsOnFirstChunk(stream) == stream # <<>> /\ ErrorFreePrefix(stream) = <<>>

\* the stream has exactly one is_done chunk, its last item
EndsWithSingleDone(stream) ==
    /\ stream # <<>>
    /\ \A i \in 1..Len(stream) : (stream[i].kind = "chunk" /\ stream[i].is_done) <=> i = Len(stream)

\* every stream_chat invocation made so far failed
AllAttemptsFailed == \A k \in 1..Len(st_log) : ~StreamSucceeds(st_log[k].stream)

\* adapter i used up the initial attempt and all max_retries retries without success
ExhaustedRetries(i) ==
    /\ Cardinality(AttemptsOn(i)) = st_max_retries + 1
    /\ \A k \in AttemptsOn(i) : ~StreamSucceeds(st_log[k].stream)

IsAdapterChunk(c) == c.by = "adapter"

\* the error-free prefixes of the logged attempts, concatenated in attempt order
RECURSIVE ConcatPrefixes(_)
ConcatPrefixes(log) ==
    IF log = <<>> THEN <<>>
    ELSE ErrorFreePrefix(Head(log).stream) \o ConcatPrefixes(Tail(log))

\* ---- C2 ----------------------------------------------------------------
\* C2: when an adapter has failed its initial attempt and all max_retries
\* retries, stream_chat is invoked next on the following adapter, which gets
\* its own initial attempt plus up to max_retries retries.
C2_FallbackStartsOver ==
    st_pc = "done" =>
        \A i \in 1..(Len(st_adapters) - 1) :
            ExhaustedRetries(i) =>
                /\ AttemptsOn(i + 1) # {}
                /\ \/ \E k \in AttemptsOn(i + 1) : StreamSucceeds(st_log[k].stream)
                   \/ Cardinality(AttemptsOn(i + 1)) = st_max_retries + 1

\* ---- C3 ----------------------------------------------------------------
\* C3: with a primary whose stream errors on its first chunk in every attempt
\* and a fallback whose stream succeeds, the caller receives exactly the
\* chunks of the fallback adapter and nothing attributed to the primary.
C3_OnlyFallbackChunks ==
    ( /\ st_pc = "done"
      /\ Len(st_adapters) = 2
      /\ \A k \in AttemptsOn(1) : ErrorsOnFirstChunk(st_log[k].stream)
      /\ \A k \in AttemptsOn(2) : StreamSucceeds(st_log[k].stream) )
    =>
    ( /\ st_out # <<>>
      /\ \A j \in 1..Len(st_out) :
            st_out[j].by = "adapter" /\ st_out[j].provider = st_adapters[2] )

\* ---- C4 ----------------------------------------------------------------
\* C4: with adapters whose streams end with a single is_done chunk, the
\* yielded sequence has exactly one is_done chunk, which is the last one, and
\* nothing is yielded after a chunk that carries an error.
C4_SingleTerminalChunk ==
    (\A k \in 1..Len(st_log) : EndsWithSingleDone(st_log[k].stream))
    =>
    ( /\ \A j \in 1..Len(st_out) :
            (st_out[j].is_done \/ st_out[j].error # None) => j = Len(st_out)
      /\ st_pc = "done" => (st_out # <<>> /\ Last(st_out).is_done) )

\* ---- C5 ----------------------------------------------------------------
\* C5: handle_stream terminates, and when every attempt it made failed the
\* last chunk it yielded has is_done = true and carries an error.
C5_TerminalErrorChunk ==
    /\ <>(st_pc = "done")
    /\ []((st_pc = "done" /\ AllAttemptsFailed) =>
            (st_out # <<>> /\ Last(st_out).is_done /\ Last(st_out).error # None))

\* all adapters were given, every attempt made failed, and the call is over
C5_Witness ==
    /\ st_pc = "done"
    /\ Len(st_adapters) = 2
    /\ Len(st_log) >= 2
    /\ AllAttemptsFailed

\* ---- C6 ----------------------------------------------------------------
\* C6: what the caller received from the adapters is, at every moment, the
\* concatenation in attempt order of the error-free prefix of each attempt's
\* stream (the running attempt being possibly not yet fully delivered);
\* nothing is reordered, dropped or withdrawn.
C6_EmissionOrder ==
    /\ IsPrefix(SelectSeq(st_out, IsAdapterChunk), ConcatPrefixes(st_log))
    /\ st_pc # "iter" => SelectSeq(st_out, IsAdapterChunk) = ConcatPrefixes(st_log)

\* a retry happened after a partially delivered attempt, and the call ended
C6_Witness ==
    /\ st_pc = "done"
    /\ Len(st_log) >= 2
    /\ ErrorFreePrefix(st_log[1].stream) # <<>>
    /\ ~StreamSucceeds(st_log[1].stream)
    /\ StreamSucceeds(Last(st_log).stream)

\* ---- UsageTracker: vocabulary of the claims C8..C10 ----------------------

\* the last call was a record_usage that ended with QuotaExceededError
LastRaisedQuota ==
    ut_last.op = "record_usage" /\ ut_last.raised # None

\* the record of the last record_usage call was appended to records
LastWasStored ==
    /\ Len(records) = ut_last.had_records + 1
    /\ Last(records).provider = Last(ut_events).provider
    /\ Last(records).model = Last(ut_events).model
    /\ Last(records).timestamp = ut_last.at

\* the summed cost of all stored records
RECURSIVE CostOfRecords(_)
CostOfRecords(recs) ==
    IF recs = <<>> THEN 0 ELSE CostOfRecords(SubSeq(recs, 1, Len(recs) - 1)) + Last(recs).cost

\* the token total of one event: the reported total, or prompt + completion
\* when none is reported (a total of 0, the default of Usage, reports nothing)
EventTotal(ev) ==
    LET u == ev.usage
        field(f) == IF u.given /\ u[f] # Absent THEN u[f] ELSE 0
    IN  IF field("total_tokens") > 0 THEN field("total_tokens")
        ELSE field("prompt_tokens") + field("completion_tokens")

RECURSIVE SumEventTotals(_)
SumEventTotals(evs) ==
    IF evs = <<>> THEN 0 ELSE EventTotal(Head(evs)) + SumEventTotals(Tail(evs))

\* ---- C7 ----------------------------------------------------------------
\* C7: whenever record_usage raises QuotaExceeded during a chat request, or a
\* tool execution is rejected with PermissionError, the turn ends with that
\* failure as the caller's error, and no provider is called after a quota
\* failure.
C7_QuotaAndPermissionEscalate ==
    (cl_pc = "done" /\ (cl_quota_at > 0 \/ cl_denied)) =>
        /\ cl_result.kind = "error"
        /\ cl_result.error \in {"QuotaExceeded:tokens", "QuotaExceeded:cost",
                                "PermissionError"}
        /\ cl_quota_at > 0 => Len(cl_tried) = cl_quota_at

\* ---- C8 ----------------------------------------------------------------
\* C8: whenever record_usage raises QuotaExceeded (token ceiling or lifetime
\* cost cap) the record of that request is already in records, in the
\* aggregate stats and in both windows.
C8_RecordedBeforeRaise ==
    LastRaisedQuota =>
        /\ LastWasStored
        /\ stats.total_requests = ut_last.had_records + 1
        /\ hourly_stats # <<>> /\ Last(hourly_stats) = <<ut_last.at, Last(records)>>
        /\ daily_stats # <<>> /\ Last(daily_stats) = <<ut_last.at, Last(records)>>

\* ---- C9 ----------------------------------------------------------------
\* C9: with max_cost configured, record_usage raises for cost exactly on the
\* calls that store a record making the summed cost of the stored records
\* exceed max_cost; with no other limit configured it raises exactly then.
C9_RaisesWhenCostExceeds ==
    (max_cost # NoLimit /\ ut_last.op = "record_usage") =>
        /\ (ut_last.raised = "QuotaExceeded:cost")
              <=> (LastWasStored /\ CostOfRecords(records) > max_cost)
        /\ max_tokens_per_request = NoLimit =>
              ((ut_last.raised # None) <=> CostOfRecords(records) > max_cost)

\* a call that took the running total from within the cap to beyond it
C9_Witness ==
    /\ max_cost # NoLimit
    /\ ut_last.op = "record_usage"
    /\ ut_last.raised = "QuotaExceeded:cost"
    /\ Len(records) >= 2
    /\ CostOfRecords(SubSeq(records, 1, Len(records) - 1)) <= max_cost
    /\ CostOfRecords(SubSeq(records, 1, Len(records) - 1)) > 0

WindowRecords(window) == [i \in 1..Len(window) |-> window[i][2]]

\* the stored records written no longer than `span` hours before time t
WrittenWithin(recs, span, t) == SelectSeq(recs, LAMBDA r : t - r.timestamp <= span)

\* C11: after every record_usage call that stores a record, the hourly window
\* holds exactly the stored records written within the last hour and the
\* daily window those written within the last 24 hours, both in write order,
\* and every entry of the hourly window is also in the daily window.
C11_WindowsHoldRecent ==
    (ut_last.op = "record_usage" /\ LastWasStored) =>
        /\ WindowRecords(hourly_stats) = WrittenWithin(records, HourWindow, ut_last.at)
        /\ WindowRecords(daily_stats) = WrittenWithin(records, DayWindow, ut_last.at)
        /\ \A i \in 1..Len(hourly_stats) :
              \E j \in 1..Len(daily_stats) : daily_stats[j] = hourly_stats[i]

\* a write that pruned both windows, and one that kept an entry exactly one
\* hour old
C11_Witness ==
    /\ ut_last.op = "record_usage" /\ LastWasStored
    /\ Len(hourly_stats) < Len(daily_stats)
    /\ Len(daily_stats) < Len(records)

\* ---- C12 ---------------------------------------------------------------
\* C12: check_quotas never changes records, aggregate stats or either window,
\* whether it returns or raises; it raises only if the cost sum of the hourly
\* window has reached max_cost_hourly or that of the daily window has reached
\* max_cost_daily, and never when neither cap is configured.
C12_CheckQuotasReadsOnly ==
    [][CheckQuotas =>
        /\ UNCHANGED <<records, stats, hourly_stats, daily_stats>>
        /\ ut_last'.raised # None =>
              \/ max_cost_hourly # NoLimit
                    /\ GetCostInWindow(hourly_stats) >= max_cost_hourly
              \/ max_cost_daily # NoLimit
                    /\ GetCostInWindow(daily_stats) >= max_cost_daily]_vars

\* check_quotas raised on the daily cap, over windows that hold entries
\* older than their span
C12_Witness ==
    /\ ut_last.op = "check_quotas"
    /\ ut_last.raised = "QuotaExceeded:daily"
    /\ ut_last.at > Head(hourly_stats)[1] + HourWindow

\* ---- C13 ---------------------------------------------------------------
\* the messages of the call were prepared and their estimate exceeds the
\* configured per-request limit
EstimateExceedsLimit ==
    /\ or_pc # "idle"
    /\ or_call.estimated_tokens > 0
    /\ max_tokens_per_request # NoLimit
    /\ or_call.estimated_tokens > max_tokens_per_request

\* the call ended in QuotaExceeded with no adapter request sent and the
\* session context and usage records as they were
RejectedUpFront ==
    /\ or_pc = "done"
    /\ or_result = [kind |-> "error", error |-> "QuotaExceeded"]
    /\ or_invoked = <<>>
    /\ <<session, records>> = or_before

RoutedFor(roles) == rt_last.op = "route" /\ rt_last.role \in roles

\* the local adapter counted as healthy for the last route call: cached as
\* healthy, or, not being cached as healthy, reporting healthy when asked
LocalHealthy ==
    \/ rt_last.cache_before["ollama"] = "healthy"
    \/ rt_last.health = "healthy"

C15_ArchitectAlwaysClaude ==
    RoutedFor({"ARCHITECT"}) => rt_last.returned = "claude"

\* an architect request routed while Claude was cached as down
C15_Witness ==
    /\ RoutedFor({"ARCHITECT"})
    /\ rt_last.cache_before["claude"] = "down"
    /\ rt_last.size > max_chars_local
    /\ rt_last.returned = "claude"

\* ---- C16 ---------------------------------------------------------------
\* check_availability has given every adapter an entry in the health cache
CacheFilled(cache) == \A p \in AllProviders : cache[p] # "absent"

\* C16: once check_availability has filled the health cache, a route() call
\* makes no check_health call and leaves the health cache unchanged.
C16_RouteUsesCacheOnly ==
    (rt_last.op = "route" /\ CacheFilled(rt_last.cache_before)) =>
        /\ rt_last.checks = <<>>
        /\ health_cache = rt_last.cache_before

\* ---- C17 ---------------------------------------------------------------
\* C17: check_availability never raises; it asks every configured adapter
\* and stores the status check_health returned, or "down" where it raised.
C17_CheckAvailabilityTotal ==
    rt_last.op = "check_availability" =>
        /\ rt_last.raised = None
        /\ rt_last.checks = RouterAdapters
        /\ \A p \in AllProviders :
              health_cache[p] = IF rt_last.health[p] = "raise" THEN "down"
                                ELSE rt_last.health[p]

\* the first adapter's check raised and a later adapter, cached as down,
\* was refreshed to healthy
C17_Witness ==
    /\ rt_last.op = "check_availability"
    /\ rt_last.health["ollama"] = "raise"
    /\ rt_last.health["openai"] = "healthy"
    /\ rt_last.cache_before["openai"] = "down"
    /\ health_cache["openai"] = "healthy"

\* ---- C18 ---------------------------------------------------------------
\* the store holds an entry under this key
Cached(store, key) == CacheIndex(store, key) # 0

\* the entry the store holds under this key
EntryOf(store, key) == store[CacheIndex(store, key)]

\* C18: set(key, v) leaves v stored under key with the time of the set; a
\* get(key) no later than the TTL after that returns v, and a later get
\* returns absent and removes the entry, so the next get returns absent too.
C18_RoundTripWithinTtl ==
    /\ ca_last.op = "set" =>
          /\ Cached(cache_store, ca_last.key)
          /\ EntryOf(cache_store, ca_last.key).value = ca_last.value
          /\ EntryOf(cache_store, ca_last.key).ts = ca_last.at
    /\ (ca_last.op = "get" /\ Cached(ca_last.store_before, ca_last.key)) =>
          LET e == EntryOf(ca_last.store_before, ca_last.key)
          IN  IF ca_last.at - e.ts <= CacheTtl
              THEN ca_last.returned = <<e.value>>
              ELSE /\ ca_last.returned = <<>>
                   /\ ~Cached(cache_store, ca_last.key)
                   /\ CacheGet(cache_store, ca_last.key, ca_last.at) = <<>>

\* a get exactly one TTL after the set, which still returns the value
C18_Witness ==
    /\ ca_last.op = "get"
    /\ Cached(ca_last.store_before, ca_last.key)
    /\ ca_last.at - EntryOf(ca_last.store_before, ca_last.key).ts = CacheTtl
    /\ ca_last.returned = <<EntryOf(ca_last.store_before, ca_last.key).value>>

\* ---- C19 ---------------------------------------------------------------
\* the entries of a store kept under other keys, in iteration order
OtherEntries(store, key) == SelectSeq(store, LAMBDA e : e.key # key)

\* C19: the store never holds more than max_entries entries; a set at
\* capacity removes exactly the first entry in insertion order and a set
\* below capacity removes none.
C19_BoundedEvictFirst ==
    /\ Len(cache_store) <= MaxCacheEntries
    /\ ca_last.op = "set" =>
          IF Len(ca_last.store_before) >= MaxCacheEntries
          THEN OtherEntries(cache_store, ca_last.key)
                  = OtherEntries(Tail(ca_last.store_before), ca_last.key)
          ELSE OtherEntries(cache_store, ca_last.key)
                  = OtherEntries(ca_last.store_before, ca_last.key)

\* a set of a new key into a full store
C19_Witness ==
    /\ ca_last.op = "set"
    /\ Len(ca_last.store_before) = MaxCacheEntries
    /\ ~Cached(ca_last.store_before, ca_last.key)
    /\ Len(cache_store) = MaxCacheEntries
    /\ cache_store[1] = ca_last.store_before[2]

\* ---- C20 ---------------------------------------------------------------
\* C20: the cache key of LLMClient.chat separates target providers: a
\* response produced by one provider is never handed to a request that
\* names another provider.
C20_ResponseFromNamedProvider ==
    (ca_last.op = "chat" /\ ca_last.returned # <<>>) =>
        ca_last.returned[1].provider = ca_last.key.provider

\* ---- ToolEngine.execute_tool: vocabulary of the claims C21..C28 ------------

\* the position of the first `e` in trace tr (0: not in it)
RECURSIVE Pos(_, _)
Pos(tr, e) ==
    IF tr = <<>> THEN 0
    ELSE IF Head(tr) = e THEN 1
    ELSE IF Pos(Tail(tr), e) = 0 THEN 0 ELSE 1 + Pos(Tail(tr), e)

Happened(tr, e) == Pos(tr, e) > 0

\* a happened in tr, and before any b
Precedes(tr, a, b) == Happened(tr, a) /\ (Happened(tr, b) => Pos(tr, a) < Pos(tr, b))

\* the events with which the handler is over
HandlerOver == {"handler_returned", "handler_raised", "worker_joined"}

\* the traces to judge: those of the finished calls and that of the call
\* in progress
Traces == {te_attempts[i].trace : i \in 1..Len(te_attempts)} \cup {te_trace}

FinishedAttempts == {te_attempts[i] : i \in 1..Len(te_attempts)}

\* ---- C21 ---------------------------------------------------------------
\* C21: execute_tool goes lookup, permission check, handler, audit,
\* return/raise: an unknown name raises ValueError with no permission check,
\* no handler call and no audit entry; the handler starts only after the
\* permission check passed; an audit entry is written after the handler is
\* over and before execute_tool returns or raises.
C21_StepsInOrder ==
    /\ \A a \in FinishedAttempts :
          a.call.name \notin RegisteredTools =>
              /\ a.raised = "ValueError"
              /\ a.trace = <<"lookup", "raise">>
              /\ a.audit = <<>>
    /\ \A tr \in Traces :
          /\ tr # <<>> => Head(tr) = "lookup"
          /\ Happened(tr, "handler") =>
                /\ Precedes(tr, "permission", "handler")
                /\ ~Happened(tr, "refused")
          /\ Happened(tr, "audit") =>
                /\ \E e \in HandlerOver : Precedes(tr, e, "audit")
                /\ Precedes(tr, "handler", "audit")
                /\ Precedes(tr, "audit", "return")
                /\ Precedes(tr, "audit", "raise")
          /\ \A e \in {"return", "raise"} : Happened(tr, e) => Pos(tr, e) = Len(tr)

\* a call ran the handler, audited its failure and raised; another call
\* named an unknown tool
C21_Witness ==
    /\ \E a \in FinishedAttempts :
          a.trace = <<"lookup", "permission", "handler", "handler_raised", "audit",
                      "raise">>
    /\ \E a \in FinishedAttempts : a.call.name \notin RegisteredTools

\* ---- C22 ---------------------------------------------------------------
\* C22: in mode "deny" every call on a registered tool raises a permission
\* error and never starts the handler, whatever the whitelist, the patterns
\* and requires_approval; in mode "trust" no call is rejected for permission
\* and no approval is asked for.
C22_DenyAndTrust ==
    /\ permission_mode = "deny" =>
          /\ \A a \in FinishedAttempts :
                a.call.name \in RegisteredTools => a.raised = "PermissionError"
          /\ \A tr \in Traces : ~Happened(tr, "handler")
    /\ permission_mode = "trust" =>
          /\ \A a \in FinishedAttempts : a.raised # "PermissionError"
          /\ \A tr \in Traces : ~Happened(tr, "approved") /\ ~Happened(tr, "refused")
          /\ te_pc = "submit" => te_call.name \in RegisteredTools

\* deny mode rejected a whitelisted tool whose path matches a pattern, and
\* a tool that needs no approval
C22_Witness ==
    /\ permission_mode = "deny"
    /\ "write_file" \in tool_whitelist
    /\ auto_approve_patterns = AutoApprovePatterns
    /\ \E a \in FinishedAttempts : a.call.id = "t2" /\ a.raised = "PermissionError"
    /\ \E a \in FinishedAttempts : a.call.id = "t3" /\ a.raised = "PermissionError"

\* ---- C23 ---------------------------------------------------------------
\* some pattern "tool_name:path_glob" names the tool and its glob matches
\* the `path` argument
MatchesToolGlob(call) ==
    \E i \in 1..Len(auto_approve_patterns) :
        LET pat == auto_approve_patterns[i]
        IN  /\ pat.tool_pattern = call.name
            /\ pat.arg_pattern # None
            /\ call.path # None
            /\ Fnmatch(call.path, pat.arg_pattern)

\* some pattern names the tool or is "**", and has no glob or a glob that
\* matches the `path` argument
PatternAccepts(call) ==
    \E i \in 1..Len(auto_approve_patterns) :
        LET pat == auto_approve_patterns[i]
        IN  /\ pat.tool_pattern \in {call.name, "**"}
            /\ \/ pat.arg_pattern = None
               \/ call.path # None /\ Fnmatch(call.path, pat.arg_pattern)

AutoAttempts ==
    {a \in FinishedAttempts : a.mode = "auto" /\ a.call.name \in RegisteredTools}

ManualAttempts ==
    {a \in FinishedAttempts : a.mode = "manual" /\ a.call.name \in RegisteredTools}

C25_OneAuditEntryPerAttempt ==
    audit_enabled =>
        \A a \in FinishedAttempts :
            a.call.name \in RegisteredTools =>
                /\ Len(a.audit) = 1
                /\ a.audit[1].success <=> Happened(a.trace, "handler_returned")

\* ---- C26 ---------------------------------------------------------------
\* the attempts whose handler raised
FailedInHandler == {a \in FinishedAttempts : Happened(a.trace, "handler_raised")}

C27_TimeoutDoesNotWaitForWorker ==
    /\ Happened(te_trace, "timeout") /\ te_worker = "running" =>
          te_pc \in {"audit", "finish", "done"}
    /\ \A tr \in Traces :
          Happened(tr, "timeout") /\ Happened(tr, "raise") =>
              ~Happened(tr, "worker_joined")

\* ---- C28 ---------------------------------------------------------------
\* an audit entry without its timestamp
WithoutTimestamp(entry) == [f \in (DOMAIN entry) \ {"timestamp"} |-> entry[f]]

\* the entries of an attempt without their timestamps
Untimed(a) == [i \in 1..Len(a.audit) |-> WithoutTimestamp(a.audit[i])]

\* two attempts with the same tool, argument keys and outcome
SameButValues(a, b) ==
    /\ a.call.name = b.call.name
    /\ a.call.arg_keys = b.call.arg_keys
    /\ a.raised = b.raised

\* C28: audit entries depend only on the tool name, the outcome and the
\* argument key names: two attempts with the same tool, the same argument
\* keys and the same outcome append the same entry apart from its timestamp,
\* whatever the argument values.
C28_AuditIgnoresValues ==
    \A a, b \in FinishedAttempts : SameButValues(a, b) => Untimed(a) = Untimed(b)

\* two audited write_file attempts with the same outcome and different paths
C28_Witness ==
    \E a, b \in FinishedAttempts :
        /\ SameButValues(a, b)
        /\ a.call.path # b.call.path
        /\ Len(a.audit) = 1 /\ Len(b.audit) = 1
        /\ a.audit[1].timestamp # b.audit[1].timestamp

\* ---- C29 ---------------------------------------------------------------
\* C29: the active persona is always a registered one; set_active with a
\* registered name makes it the active one, set_active with an unknown name
\* fails and leaves the active persona as it was, and get(name) never
\* changes the active persona.
C29_ActivePersonaRegistered ==
    /\ pm_active \in PersonaNames
    /\ pm_last.op = "set_active" /\ pm_last.name \in PersonaNames =>
          /\ pm_last.raised = None
          /\ pm_active = pm_last.name
    /\ pm_last.op = "set_active" /\ pm_last.name \notin PersonaNames =>
          /\ pm_last.raised = "KeyError"
          /\ pm_active = pm_last.active_before
    /\ pm_last.op = "get" => pm_active = pm_last.active_before

\* set_active with an unknown name failed after another persona had been
\* made the active one
C29_Witness ==
    /\ pm_last.op = "set_active"
    /\ pm_last.name = "no-such-persona"
    /\ pm_last.raised = "KeyError"
    /\ pm_active = "architect"

\* ---- C30 ---------------------------------------------------------------
\* the call passed the budget check and its request went to an adapter
RequestSent == or_pc = "done" /\ or_result.kind = "sent"

\* what the context manager held for the selected backend when the call
\* was made
StoredContext == SessionGet(or_before[1], or_call.provider)

\* the messages of the request between its first and its last
Between(messages) == SubSeq(messages, 2, Len(messages) - 1)

ResponseObtained ==
    /\ cl_pc = "done"
    /\ cl_response # <<>>
    /\ cl_result.error # "ExecutionFailed"

\* C31: after chat returns a response obtained from a backend, the session
\* context of that backend is its prior content followed by the new user
\* message and the assistant reply, and no other key has changed.
C31_TurnAppendedToContext ==
    ResponseObtained =>
        /\ cl_result.kind = "response"
        /\ SessionGet(session, cl_providers[1]) =
              <<[role |-> "user", content |-> "turn"],
                [role |-> "assistant", content |-> cl_response[1].content]>>
        /\ \A k \in (DOMAIN session) \ {cl_providers[1]} : session[k] = <<>>


\* ---- ContextManager reads: vocabulary of the claims C32..C35 --------------
\* s is the end of t
IsSuffix(s, t) == Len(s) <= Len(t) /\ SubSeq(t, Len(t) - Len(s) + 1, Len(t)) = s

\* the messages of a list that add_message was called with (the synthetic
\* summaries have the role "system")
Originals(messages) == SelectSeq(messages, LAMBDA m : m.role # "system")

\* m is in the list
InList(m, messages) == \E i \in 1..Len(messages) : messages[i] = m

\* sum(len(m.content) // 4 for m in messages)
RECURSIVE SumTokens(_)
SumTokens(messages) ==
    IF messages = <<>> THEN 0
    ELSE Len(Head(messages).content) \div 4 + SumTokens(Tail(messages))

\* the last call was get_context without max_tokens
PlainGet == cx_last.op = "get_context" /\ cx_last.max_tokens = NoLimit

\* ---- C32 ----
\* C32: get_context(backend) without max_tokens returns the stored "global"
\* messages followed by the stored messages of the backend (only the global
\* ones for "global"), each part in the order add_message was called; the
\* message added last under either key is in the result, and no message that
\* was added under another key is.
C32_GlobalThenBackend ==
    PlainGet =>
        LET key == KeyFor(cx_last.backend)
            stored_global == SessionGet(session, "global")
            stored_backend == IF key = "global" THEN <<>> ELSE SessionGet(session, key)
            returned == cx_last.returned
        IN  /\ returned = stored_global \o stored_backend
            /\ IsSuffix(Originals(stored_global), ctx_log["global"])
            /\ key # "global" => IsSuffix(Originals(stored_backend), ctx_log[key])
            /\ \A k \in {"global", key} :
                  ctx_log[k] # <<>> => InList(Last(ctx_log[k]), returned)
            /\ \A k \in ReadKeys \ {"global", key} :
                  \A i \in 1..Len(ctx_log[k]) : ~InList(ctx_log[k][i], returned)

C32_Witness ==
    /\ PlainGet
    /\ cx_last.backend = "openai"
    /\ Len(ctx_log["global"]) = 2
    /\ Len(ctx_log["openai"]) >= 2
    /\ ctx_log["claude"] # <<>>
    /\ Len(cx_last.returned) >= 4

\* ---- C33 ----
\* C33: for every max_tokens >= 0 given to get_context, the result is the
\* end of the untrimmed context, its messages sum to at most max_tokens
\* (len(content)//4 each), and no longer end of the context does.
C33_LongestFittingSuffix ==
    (cx_last.op = "get_context" /\ cx_last.max_tokens >= 0) =>
        LET untrimmed == GetContext(session, KeyFor(cx_last.backend))
            returned == cx_last.returned
        IN  /\ IsSuffix(returned, untrimmed)
            /\ SumTokens(returned) <= cx_last.max_tokens
            /\ \A n \in (Len(returned) + 1)..Len(untrimmed) :
                  SumTokens(SubSeq(untrimmed, Len(untrimmed) - n + 1, Len(untrimmed)))
                      > cx_last.max_tokens


\* ---- C34 ----
\* the last call was distill_async; what the backend's history was before
\* and is after it
DistillCalled == cx_last.op = "distill_async"
HistoryBefore == SessionGet(cx_last.session_before, cx_last.backend)
HistoryAfter == SessionGet(session, cx_last.backend)

\* the last n elements of a list
LastN(s, n) == IF Len(s) <= n THEN s ELSE SubSeq(s, Len(s) - n + 1, Len(s))

\* the history after a distillation: one synthetic system message that was
\* not there before, then the last 8 messages of the history before
SummaryThenLastEight ==
    /\ HistoryAfter # <<>>
    /\ Head(HistoryAfter).role = "system"
    /\ ~InList(Head(HistoryAfter), HistoryBefore)
    /\ Tail(HistoryAfter) = LastN(HistoryBefore, 8)

\* C34: distill_async changes nothing and makes no secondary LLM call when
\* the estimated tokens of the backend's history do not exceed
\* distillation_trigger_tokens; when they do, the history afterwards is one
\* synthetic system summary followed by the last 8 messages of the history
\* before.
C34_DistillOnlyOverTrigger ==
    DistillCalled =>
        IF CtxEstimateTokens(HistoryBefore) <= distillation_trigger_tokens
        THEN /\ session = cx_last.session_before
             /\ ~cx_last.llm_called
        ELSE SummaryThenLastEight

\* ---- C35 ----
\* the distillation ran and its secondary call failed or could not be made
SecondaryFailed ==
    /\ DistillCalled
    /\ HistoryBefore # <<>>
    /\ CtxEstimateTokens(HistoryBefore) > distillation_trigger_tokens
    /\ \/ cx_orchestrator = "none"
       \/ cx_last.secondary \in {"AttributeError", "Unavailable", "ExecutionFailed"}

\* C35: when the secondary LLM call of a distillation fails, or no
\* orchestrator is attached, distill_async returns without raising, its
\* summary message is built from the truncated history text, and the history
\* of the backend is replaced by that summary and the last 8 messages.
C35_FallbackSummaryReplacesHistory ==
    SecondaryFailed =>
        /\ cx_last.raised = None
        /\ Head(cx_last.returned) =
              [role |-> "system",
               content |-> <<"[Context distilled] Task: ">> \o cx_last.hint \o <<"\n">>
                              \o Truncated(JoinLines(HistoryBefore))]
        /\ Head(HistoryAfter) = Head(cx_last.returned)
        /\ SummaryThenLastEight


\* ---- C36 ----
\* the providers of cl_providers whose adapter was invoked, in cl_providers order
TriedInOrder == IsPrefix(cl_tried, cl_providers)

\* the turn ended with the provider failure raised to the caller
ProviderFailureRaised == cl_pc = "done" /\ cl_result.error = "ExecutionFailed"

\* C36: in a chat turn the adapters are invoked in the order preferred
\* provider, then the rest of the fallback chain, each at most once and none
\* after a response was obtained; a provider failure reaches the caller only
\* when every one of them was tried.
C36_FallbackOrder ==
    /\ TriedInOrder
    /\ cl_response # <<>> => Len(cl_tried) <= cl_i
    /\ ProviderFailureRaised => cl_tried = cl_providers


\* ---- C37 ----
\* the i-th stream_chat invocation failed with Unavailable
UnavailableAt(i) ==
    /\ st_log[i].stream # <<>>
    /\ Head(st_log[i].stream).kind = "raise"
    /\ Head(st_log[i].stream).error = "Unavailable"

\* C37: an adapter whose stream_chat failed with Unavailable is not invoked
\* again in the same handle_stream call.
C37_UnavailableNotRetried ==
    \A i, j \in 1..Len(st_log) :
        (i < j /\ UnavailableAt(i)) => st_log[j].adapter # st_log[i].adapter


\* ---- C38 ----
\* the (role, content) pairs of loaded entries
Pairs(entries) == [i \in 1..Len(entries) |-> <<entries[i].role, entries[i].content>>]

\* C38: what load_task_conversation_entries returns for a task is, in append
\* order, the (role, content) pairs appended to that task since its last
\* clear (nothing right after a clear), whatever was done to the other task.
C38_ConversationRoundTrip ==
    /\ ft_last.op = "load" => Pairs(ft_last.returned) = ft_appended[ft_last.task]
    /\ \A t \in FeatureTasks :
          Pairs(LoadTaskConversationEntries(ft_files, t)) = ft_appended[t]

C38_Witness ==
    /\ ft_last.op = "load"
    /\ Len(ft_last.returned) = 1
    /\ ft_ops = 3
    /\ \E t \in FeatureTasks \ {ft_last.task} : ft_appended[t] # <<>>


\* ---- C39 ----
\* sum of the costs of a list of usage records
RECURSIVE CostOf(_)
CostOf(recs) == IF recs = <<>> THEN 0 ELSE Head(recs).cost + CostOf(Tail(recs))

\* C39: check_quotas raises the hourly QuotaExceeded only when the records
\* written within the hour before the check cost max_cost_hourly or more, and
\* the daily one only when those of the 24 hours before the check cost
\* max_cost_daily or more.
C39_WindowsSlideAtCheck ==
    ut_last.op = "check_quotas" =>
        /\ ut_last.raised = "QuotaExceeded:hourly" =>
              CostOf(WrittenWithin(records, HourWindow, ut_last.at)) >= max_cost_hourly
        /\ ut_last.raised = "QuotaExceeded:daily" =>
              CostOf(WrittenWithin(records, DayWindow, ut_last.at)) >= max_cost_daily


\* ---- C40 ----
\* the chat calls made before the k-th one all returned, for steps with
\* these ids
CompletedBefore(k) == {tk_task[tk_calls[j]].id : j \in 1..(k - 1)}

\* every step has completed
AllStepsCompleted == \A i \in 1..Len(tk_task) : tk_status[i] = "completed"

\* what holds at every point of execute
ExecuteInOrder ==
    \* a step's chat call comes after the completion of every id it depends on
    /\ \A k \in 1..Len(tk_calls) :
          /\ tk_task[tk_calls[k]].dependencies \subseteq CompletedBefore(k)
          /\ \A j \in 1..(k - 1) : tk_status[tk_calls[j]] = "completed"
    \* no step is executed twice
    /\ \A j, k \in 1..Len(tk_calls) : j # k => tk_calls[j] # tk_calls[k]
    \* a failed step is the last one executed, and execute is on its way out
    /\ \A i \in 1..Len(tk_task) :
          tk_status[i] = "failed" =>
              /\ tk_calls # <<>> /\ Last(tk_calls) = i
              /\ tk_pc \in {"return", "done"}
    \* the result
    /\ tk_pc = "done" => (tk_result.success <=> AllStepsCompleted)

\* C40: execute calls chat for a step only after every id in its
\* dependencies has completed, executes no step twice, stops at the first
\* failing step, reports success exactly when every step completed, and
\* returns for every list of steps, cyclic or with unknown dependencies.
C40_ExecuteOrderedAndTerminates == []ExecuteInOrder /\ <>(tk_pc = "done")

\* a task of three steps with a dependency that was honoured out of list
\* order, finished with success
C40_Witness ==
    /\ tk_pc = "done"
    /\ tk_result.success
    /\ Len(tk_task) = 3
    /\ tk_calls # <<1, 2, 3>>

====
